---- MODULE Spec2Model ----
(***************************************************************************)
(* A model of WebRTCManager (src/src/lib/webrtc.ts, the encrypted          *)
(* variant, lines 35-442) and of the crypto helpers it uses                *)
(* (src/unnamed/part_001).                                                 *)
(*                                                                         *)
(* One manager instance is modelled.  Its fields are the variables below;  *)
(* every action is the code that runs between two awaits of one method or  *)
(* callback (JavaScript runs each such stretch to completion).  In the     *)
(* end-to-end specification the frames sendFile puts on the channel are    *)
(* the inbound messages of the remote manager, which runs the same code    *)
(* with the same derived key: the receive half of the model plays it.      *)
(*                                                                         *)
(* File contents are symbolic: the bytes of the file of transfer id are    *)
(* the distinct values (id, 0), (id, 1), ..., and a run of bytes is the    *)
(* range [src, lo, hi).  AES-GCM is symbolic too: a ciphertext names the   *)
(* key it was made under, and decrypts only under that key, untampered.    *)
(***************************************************************************)
EXTENDS Integers, Sequences, FiniteSets, TLC

\* ------------------------------------------------------------ constants
CHUNK_SIZE == 16384
BUFFER_LIMIT == 1048576
UUID_LENGTH == 36
IV_LENGTH == 12
TAG_LENGTH == 16

\* ------------------------------------------------------------ bounds
MaxCalls == 2
MaxChunks == 2
MaxInject == 3
MaxSendCalls == 1
MaxHandshakes == 3
MaxDisconnects == 1
MaxSessionInject == 1
MaxHandlers == 2
MaxSubscribeInject == 2
MaxPrivate == 3
MaxLen == 2

\* ------------------------------------------------------------ values
NoKey == "null"
Null == 0
Plain == "plain"

\* File sizes: the empty file, and for one chunk and for MaxChunks chunks a
\* file whose last chunk is one byte and a file whose last chunk is full.
FileSizes ==
    {0} \cup { (k - 1) * CHUNK_SIZE + r : k \in {1, MaxChunks}, r \in {1, CHUNK_SIZE} }

TransferIds == 1..MaxCalls

\* A string: plaintext, or the base64 of iv || ciphertext made under key.
Str(t) == [text |-> t, key |-> Plain, bad |-> FALSE]
NoStr == Str("")
FileName(c) == Str("name")
FileType(c) == Str("mime")

\* A run of bytes: plaintext bytes lo..hi-1 of file src, or (key # Plain) the
\* IV followed by their AES-GCM ciphertext and tag.
Bytes(src, lo, hi) == [src |-> src, lo |-> lo, hi |-> hi, key |-> Plain, bad |-> FALSE]
NoBody == Bytes(0, 0, 0)
ByteLength(p) == (p.hi - p.lo) + (IF p.key = Plain THEN 0 ELSE IV_LENGTH + TAG_LENGTH)

Min(a, b) == IF a < b THEN a ELSE b

RemoveAt(s, i) == [j \in 1..(Len(s) - 1) |-> IF j < i THEN s[j] ELSE s[j + 1]]

\* ------------------------------------------------------------ crypto
\* encryptData: a fresh IV and the ciphertext of data under key.
encryptData(key, data) == [data EXCEPT !.key = key]
\* decryptData resolves iff the ciphertext was made under key and verifies.
CanDecrypt(key, c) == key # NoKey /\ c.key # Plain /\ c.key = key /\ ~c.bad
decryptData(key, c) == [c EXCEPT !.key = Plain]
\* encryptString / decryptString: the same over strings, base64-wrapped.
encryptString(key, s) == [s EXCEPT !.key = key]
decryptString(key, s) == [s EXCEPT !.key = Plain]

\* ------------------------------------------------------------ messages
MetaMsg(id, name, size, ftype, enc) ==
    [type |-> "file-meta", id |-> id, name |-> name, size |-> size,
     fileType |-> ftype, encrypted |-> enc, body |-> NoBody]
CompleteMsg(id) ==
    [type |-> "file-complete", id |-> id, name |-> NoStr, size |-> 0,
     fileType |-> NoStr, encrypted |-> FALSE, body |-> NoBody]
\* A binary frame: [idLength][id][body], body = raw chunk or iv || ciphertext.
Packet(id, body) ==
    [type |-> "binary", id |-> id, name |-> NoStr, size |-> 0,
     fileType |-> NoStr, encrypted |-> FALSE, body |-> body]
OtherMsg(id) ==
    [type |-> "other", id |-> id, name |-> NoStr, size |-> 0,
     fileType |-> NoStr, encrypted |-> FALSE, body |-> NoBody]

IsText(m) == m.type # "binary"
HeaderLength == 1 + UUID_LENGTH
\* Bytes a message adds to the channel's buffer.
MessageLength(m) ==
    IF m.type = "binary" THEN HeaderLength + ByteLength(m.body)
    ELSE IF m.type = "file-complete" THEN 32 + UUID_LENGTH
    ELSE 128

\* A Uint8Array: a view of length bytes at byteOffset of an ArrayBuffer; the
\* buffer is hdr frame-header bytes followed by data.
View(hdr, data) == [hdr |-> hdr, data |-> data]
ViewLength(v) == ByteLength(v.data)
BufferLength(v) == v.hdr + ByteLength(v.data)

NoData == [has |-> FALSE, parts |-> <<>>]
FileEvent(id, name, size, ftype, progress, status, data, side) ==
    [id |-> id, name |-> name, size |-> size, type |-> ftype,
     progress |-> progress, status |-> status, data |-> data, side |-> side]

\* ------------------------------------------------------------ state
VARIABLES
    peerConnection,  \* this.peerConnection: Null or a connection number
    conn,            \* every RTCPeerConnection made so far: its signaling state
                     \* and which side made it
    keyPair,         \* this.keyPair
    hs,              \* the createOffer / handleOffer / handleAnswer call in
                     \* progress: its position and locals
    epoch,           \* how many times disconnect() has run (a record of the
                     \* run, not a field of the code)
    dataChannel,     \* this.dataChannel: Null or a channel number
    readyState,      \* readyState of the channel this.dataChannel names
    bufferedAmount,  \* its bufferedAmount
    sharedKey,       \* this.sharedKey
    isEncrypted,     \* this.isEncrypted
    receivedChunks,  \* this.receivedChunks: id -> sequence of Uint8Array
    receivedMeta,    \* this.receivedMeta: id -> [name, size, type]
    fileEvents,      \* what emitFile has delivered, in order, for each
                     \* direction ("tx", "rx") and transfer id, each event with
                     \* the handlers it was handed to
    msgEvents,       \* the received messages emit has delivered, in order,
                     \* each with the handlers it was handed to
    wire,            \* messages of the ordered channel not yet dispatched
    rx,              \* handleIncomingMessage calls suspended at an await (with
                     \* the epoch each was dispatched in)
    rxThrown,        \* handleIncomingMessage calls that ended by throwing
    lastRx,          \* how the latest step of the receive path ended, for
                     \* which id, and which ids have lost a chunk to a failed
                     \* authentication (a record of the run, not a field of
                     \* the code)
    tx,              \* sendFile calls: call number -> its position and locals
    sent,            \* every message sendFile handed to send(), in order
    injected,        \* messages the remote peer has put on the wire itself
    messageHandlers, \* this.messageHandlers: the handlers subscribed by onMessage
    fileHandlers,    \* this.fileHandlers: the handlers subscribed by onFile
    codec            \* two peers taking one buffer, string or frame through the
                     \* codec functions: the inputs and what each await returned

vars == <<peerConnection, conn, keyPair, hs, epoch,
          dataChannel, readyState, bufferedAmount, sharedKey, isEncrypted,
          receivedChunks, receivedMeta, fileEvents, msgEvents, wire, rx,
          rxThrown, lastRx, tx, sent, injected, messageHandlers, fileHandlers,
          codec>>

handlerVars == <<messageHandlers, fileHandlers>>

handshakeVars == <<peerConnection, conn, keyPair, hs, epoch>>
sessionVars == <<handshakeVars, dataChannel, readyState, sharedKey, isEncrypted>>
rxVars == <<receivedChunks, receivedMeta, rx, rxThrown, lastRx, msgEvents>>
txVars == <<tx, sent, bufferedAmount>>

Keyed == isEncrypted /\ sharedKey # NoKey

\* How a step of the receive path ended and for which id, with the ids that
\* have had a chunk dropped for failing authentication so far.
NoOutcome == [what |-> "none", id |-> 0, failed |-> {}]
Outcome(what, id) ==
    [what |-> what, id |-> id,
     failed |-> lastRx.failed \cup (IF what = "auth-failed" THEN {id} ELSE {})]

\* ------------------------------------------------------------ events
\* Math.round((part / whole) * 100) as JavaScript computes it: x / 0 is
\* Infinity for x > 0 and NaN for x = 0, and Math.round keeps both.
JS_NaN == 0 - 1
JS_Infinity == 2 ^ 30
RoundPercent(part, whole) ==
    IF whole = 0 THEN (IF part = 0 THEN JS_NaN ELSE JS_Infinity)
    ELSE (200 * part + whole) \div (2 * whole)

RECURSIVE SumLengths(_)
SumLengths(chunks) ==
    IF chunks = <<>> THEN 0 ELSE ViewLength(Head(chunks)) + SumLengths(Tail(chunks))

\* new Blob(chunks.map(chunk => chunk.buffer)): the whole ArrayBuffer behind
\* each Uint8Array, in list order.
BlobOf(chunks) == [has |-> TRUE, parts |-> chunks]

\* emit(message): this.messageHandlers.forEach(handler => handler(message)).
emit(log, message) == Append(log, [message |-> message, to |-> messageHandlers])
\* emitFile(file): this.fileHandlers.forEach(handler => handler(file)).
emitFile(log, ev) ==
    [log EXCEPT ![ev.side][ev.id] = Append(@, [to |-> fileHandlers] @@ ev)]
RECURSIVE emitFiles(_, _)
emitFiles(log, evs) ==
    IF evs = <<>> THEN log ELSE emitFiles(emitFile(log, Head(evs)), Tail(evs))

\* ------------------------------------------------------------ receive path
\* file-meta branch: both maps get the id, one 'transferring' event at 0.
Register(m) ==
    /\ receivedMeta' =
          (m.id :> [name |-> m.name, size |-> m.size, type |-> m.fileType]) @@ receivedMeta
    /\ receivedChunks' = (m.id :> <<>>) @@ receivedChunks
    /\ fileEvents' = emitFile(fileEvents,
          FileEvent(m.id, m.name, m.size, m.fileType, 0, "transferring", NoData, "rx"))
    /\ lastRx' = Outcome("registered", m.id)
    /\ UNCHANGED msgEvents

\* (mutant: file-complete removes the chunk list and forgets the metadata)
ReassembleKeepingMeta(id) ==
    IF id \in DOMAIN receivedChunks /\ id \in DOMAIN receivedMeta
    THEN LET meta == receivedMeta[id] IN
         /\ fileEvents' = emitFile(fileEvents,
               FileEvent(id, meta.name, meta.size, meta.type, 100, "completed",
                         BlobOf(receivedChunks[id]), "rx"))
         /\ receivedChunks' = [k \in DOMAIN receivedChunks \ {id} |-> receivedChunks[k]]
         /\ lastRx' = Outcome("reassembled", id)
         /\ UNCHANGED <<receivedMeta, msgEvents>>
    ELSE /\ lastRx' = Outcome("unknown-complete", id)
         /\ UNCHANGED <<fileEvents, receivedChunks, receivedMeta, msgEvents>>

\* (mutant: file-complete leaves both entries in the maps)
ReassembleKeepingBoth(id) ==
    IF id \in DOMAIN receivedChunks /\ id \in DOMAIN receivedMeta
    THEN LET meta == receivedMeta[id] IN
         /\ fileEvents' = emitFile(fileEvents,
               FileEvent(id, meta.name, meta.size, meta.type, 100, "completed",
                         BlobOf(receivedChunks[id]), "rx"))
         /\ lastRx' = Outcome("reassembled", id)
         /\ UNCHANGED <<receivedChunks, receivedMeta, msgEvents>>
    ELSE /\ lastRx' = Outcome("unknown-complete", id)
         /\ UNCHANGED <<fileEvents, receivedChunks, receivedMeta, msgEvents>>

\* file-complete branch.
Reassemble(id) ==
    IF id \in DOMAIN receivedChunks /\ id \in DOMAIN receivedMeta
    THEN LET meta == receivedMeta[id] IN
         /\ fileEvents' = emitFile(fileEvents,
               FileEvent(id, meta.name, meta.size, meta.type, 100, "completed",
                         BlobOf(receivedChunks[id]), "rx"))
         /\ receivedChunks' = [k \in DOMAIN receivedChunks \ {id} |-> receivedChunks[k]]
         /\ receivedMeta' = [k \in DOMAIN receivedMeta \ {id} |-> receivedMeta[k]]
         /\ lastRx' = Outcome("reassembled", id)
         /\ UNCHANGED msgEvents
    ELSE /\ lastRx' = Outcome("unknown-complete", id)
         /\ UNCHANGED <<fileEvents, receivedChunks, receivedMeta, msgEvents>>

\* (mutant: the text branch has no else; other messages are dropped)
HandleTextDroppingOther(m) ==
    IF m.type = "file-meta" THEN Register(m)
    ELSE IF m.type = "file-complete" THEN Reassemble(m.id)
    ELSE /\ lastRx' = Outcome("forwarded", m.id)
         /\ UNCHANGED <<fileEvents, receivedChunks, receivedMeta, msgEvents>>

\* The text branch once the metadata strings are as they will be stored.
HandleText(m) ==
    IF m.type = "file-meta" THEN Register(m)
    ELSE IF m.type = "file-complete" THEN Reassemble(m.id)
    ELSE /\ msgEvents' = emit(msgEvents, m)
         /\ lastRx' = Outcome("forwarded", m.id)
         /\ UNCHANGED <<fileEvents, receivedChunks, receivedMeta>>

\* (mutant: a chunk of an unknown id starts a list of its own)
AppendChunkCreating(id, chunk) ==
    /\ receivedChunks' =
          (id :> Append(IF id \in DOMAIN receivedChunks THEN receivedChunks[id] ELSE <<>>,
                        chunk)) @@ receivedChunks
    /\ lastRx' = Outcome("appended", id)
    /\ UNCHANGED <<fileEvents, receivedMeta, msgEvents>>

\* (mutant: the progress counts the new chunk alone)
AppendChunkLastOnly(id, chunk) ==
    IF id \in DOMAIN receivedChunks /\ id \in DOMAIN receivedMeta
    THEN LET meta == receivedMeta[id]
             chunks == Append(receivedChunks[id], chunk)
         IN /\ receivedChunks' = [receivedChunks EXCEPT ![id] = chunks]
            /\ fileEvents' = emitFile(fileEvents,
                  FileEvent(id, meta.name, meta.size, meta.type,
                            RoundPercent(ViewLength(chunk), meta.size),
                            "transferring", NoData, "rx"))
            /\ lastRx' = Outcome("appended", id)
            /\ UNCHANGED <<receivedMeta, msgEvents>>
    ELSE /\ lastRx' = Outcome("unknown-chunk", id)
         /\ UNCHANGED <<fileEvents, receivedChunks, receivedMeta, msgEvents>>

\* The end of the binary branch: look the id up, append, report progress.
AppendChunk(id, chunk) ==
    IF id \in DOMAIN receivedChunks /\ id \in DOMAIN receivedMeta
    THEN LET meta == receivedMeta[id]
             chunks == Append(receivedChunks[id], chunk)
         IN /\ receivedChunks' = [receivedChunks EXCEPT ![id] = chunks]
            /\ fileEvents' = emitFile(fileEvents,
                  FileEvent(id, meta.name, meta.size, meta.type,
                            RoundPercent(SumLengths(chunks), meta.size),
                            "transferring", NoData, "rx"))
            /\ lastRx' = Outcome("appended", id)
            /\ UNCHANGED <<receivedMeta, msgEvents>>
    ELSE /\ lastRx' = Outcome("unknown-chunk", id)
         /\ UNCHANGED <<fileEvents, receivedChunks, receivedMeta, msgEvents>>

\* channel.onmessage: handleIncomingMessage up to its first await.
handleIncomingMessage(m) ==
    IF m.type = "malformed"
    THEN \* JSON.parse throws
         /\ rxThrown' = rxThrown + 1
         /\ lastRx' = Outcome("threw", m.id)
         /\ UNCHANGED <<rx, fileEvents, receivedChunks, receivedMeta, msgEvents>>
    ELSE IF IsText(m)
    THEN IF m.encrypted /\ sharedKey # NoKey /\ m.type = "file-meta"
         THEN /\ rx' = Append(rx, [pc |-> "decName", msg |-> m, key |-> sharedKey,
                                       epoch |-> epoch])
              /\ lastRx' = Outcome("suspended", m.id)
              /\ UNCHANGED <<rxThrown, fileEvents, receivedChunks, receivedMeta, msgEvents>>
         ELSE /\ HandleText(m)
              /\ UNCHANGED <<rx, rxThrown>>
    ELSE IF Keyed
    THEN IF ByteLength(m.body) < IV_LENGTH
         THEN \* new Uint8Array(data, 1 + idLength, 12) throws RangeError
              /\ rxThrown' = rxThrown + 1
              /\ lastRx' = Outcome("threw", m.id)
              /\ UNCHANGED <<rx, fileEvents, receivedChunks, receivedMeta, msgEvents>>
         ELSE /\ rx' = Append(rx, [pc |-> "decChunk", msg |-> m, key |-> sharedKey,
                                       epoch |-> epoch])
              /\ lastRx' = Outcome("suspended", m.id)
              /\ UNCHANGED <<rxThrown, fileEvents, receivedChunks, receivedMeta, msgEvents>>
    ELSE /\ AppendChunk(m.id, View(HeaderLength, m.body))
         /\ UNCHANGED <<rx, rxThrown>>

Deliver ==
    /\ wire # <<>>
    /\ readyState = "open"
    /\ wire' = Tail(wire)
    /\ handleIncomingMessage(Head(wire))
    /\ UNCHANGED <<sessionVars, txVars, injected>>
    /\ UNCHANGED handlerVars
    /\ UNCHANGED codec

\* decryptString(name) settles: on failure the catch logs and the handler goes
\* on to the file-meta branch; on success it awaits decryptString(fileType).
RxDecName(i) ==
    /\ i \in 1..Len(rx)
    /\ rx[i].pc = "decName"
    /\ LET h == rx[i] IN
       IF CanDecrypt(h.key, h.msg.name)
       THEN /\ rx' = [rx EXCEPT ![i] =
                   [pc |-> "decType",
                    msg |-> [h.msg EXCEPT !.name = decryptString(h.key, h.msg.name)],
                    key |-> sharedKey, epoch |-> h.epoch]]
            /\ lastRx' = Outcome("suspended", h.msg.id)
            /\ UNCHANGED <<fileEvents, receivedChunks, receivedMeta, msgEvents>>
       ELSE /\ rx' = RemoveAt(rx, i)
            /\ HandleText(h.msg)
    /\ UNCHANGED <<sessionVars, txVars, wire, rxThrown, injected>>
    /\ UNCHANGED handlerVars
    /\ UNCHANGED codec

RxDecType(i) ==
    /\ i \in 1..Len(rx)
    /\ rx[i].pc = "decType"
    /\ LET h == rx[i] IN
       /\ rx' = RemoveAt(rx, i)
       /\ IF CanDecrypt(h.key, h.msg.fileType)
          THEN HandleText([h.msg EXCEPT !.fileType = decryptString(h.key, h.msg.fileType)])
          ELSE HandleText(h.msg)
    /\ UNCHANGED <<sessionVars, txVars, wire, rxThrown, injected>>
    /\ UNCHANGED handlerVars
    /\ UNCHANGED codec

\* (mutant: a chunk that fails authentication aborts its transfer)
RxDecChunkAborting(i) ==
    /\ i \in 1..Len(rx)
    /\ rx[i].pc = "decChunk"
    /\ LET h == rx[i] IN
       /\ rx' = RemoveAt(rx, i)
       /\ IF CanDecrypt(h.key, h.msg.body)
          THEN AppendChunk(h.msg.id, View(0, decryptData(h.key, h.msg.body)))
          ELSE /\ lastRx' = Outcome("auth-failed", h.msg.id)
               /\ receivedChunks' =
                     [k \in DOMAIN receivedChunks \ {h.msg.id} |-> receivedChunks[k]]
               /\ receivedMeta' =
                     [k \in DOMAIN receivedMeta \ {h.msg.id} |-> receivedMeta[k]]
               /\ UNCHANGED <<fileEvents, msgEvents>>
    /\ UNCHANGED <<sessionVars, txVars, wire, rxThrown, injected>>
    /\ UNCHANGED handlerVars
    /\ UNCHANGED codec

\* (mutant: no catch around decryptData)
RxDecChunkNoCatch(i) ==
    /\ i \in 1..Len(rx)
    /\ rx[i].pc = "decChunk"
    /\ LET h == rx[i] IN
       /\ rx' = RemoveAt(rx, i)
       /\ IF CanDecrypt(h.key, h.msg.body)
          THEN AppendChunk(h.msg.id, View(0, decryptData(h.key, h.msg.body)))
               /\ UNCHANGED rxThrown
          ELSE /\ lastRx' = Outcome("threw", h.msg.id)
               /\ rxThrown' = rxThrown + 1
               /\ UNCHANGED <<fileEvents, receivedChunks, receivedMeta, msgEvents>>
    /\ UNCHANGED <<sessionVars, txVars, wire, injected>>
    /\ UNCHANGED handlerVars
    /\ UNCHANGED codec

\* decryptData(chunk) settles: on failure the catch logs and returns.
RxDecChunk(i) ==
    /\ i \in 1..Len(rx)
    /\ rx[i].pc = "decChunk"
    /\ LET h == rx[i] IN
       /\ rx' = RemoveAt(rx, i)
       /\ IF CanDecrypt(h.key, h.msg.body)
          THEN AppendChunk(h.msg.id, View(0, decryptData(h.key, h.msg.body)))
          ELSE /\ lastRx' = Outcome("auth-failed", h.msg.id)
               /\ UNCHANGED <<fileEvents, receivedChunks, receivedMeta, msgEvents>>
    /\ UNCHANGED <<sessionVars, txVars, wire, rxThrown, injected>>
    /\ UNCHANGED handlerVars
    /\ UNCHANGED codec

\* ------------------------------------------------------------ send path
IdleCall ==
    [pc |-> "idle", id |-> 0, size |-> 0, offset |-> 0, encrypted |-> FALSE,
     name |-> NoStr, ftype |-> NoStr, pkt |-> Packet(0, NoBody), key |-> NoKey,
     waited |-> FALSE, sawLow |-> FALSE, error |-> "none", channel |-> Null]
\* waited: the call has been suspended in the buffer wait; sawLow: a
\* bufferedamountlow event has fired since its latest wait began; channel:
\* the channel the call's file-meta was sent on.  The three record the run;
\* the code has none of them.  error: what a rejected call was rejected with.

\* What sendFile's promise can reject with: its own guard's Error, a
\* TypeError (a property read on null), the InvalidStateError send() throws
\* on a channel that is not open.
NotReady == "Data channel not ready"
TypeError == "TypeError"
InvalidState == "InvalidStateError"
Rejected(call, error) == [call EXCEPT !.pc = "rejected", !.error = error]
\* this.dataChannel.send(m) on a channel that cannot send.
SendError == IF dataChannel = Null THEN TypeError ELSE InvalidState

\* crypto.randomUUID(): an id no other call has.
randomUUID(c) == c

\* (mutant: the readiness test forgets readyState)
CanSendIfPresent == dataChannel # Null
\* this.dataChannel.send(m) returns normally iff the channel is there and open.
CanSend == dataChannel # Null /\ readyState = "open"

\* (mutant: the progress is not clamped)
SendProgressUnclamped(call) ==
    FileEvent(call.id, FileName(call.id), call.size, FileType(call.id),
              RoundPercent(call.offset + CHUNK_SIZE, call.size),
              "transferring", NoData, "tx")
\* this.emitFile({..., progress: Math.min(progress, 100), status: 'transferring'})
\* after offset += CHUNK_SIZE.
SendProgress(call) ==
    FileEvent(call.id, FileName(call.id), call.size, FileType(call.id),
              Min(RoundPercent(call.offset + CHUNK_SIZE, call.size), 100),
              "transferring", NoData, "tx")
SendCompleted(call) ==
    FileEvent(call.id, FileName(call.id), call.size, FileType(call.id),
              100, "completed", NoData, "tx")

\* (mutant: the loop test off by one)
MoreChunksInclusive(call) == call.offset <= call.size
\* while (offset < data.length)
MoreChunks(call) == call.offset < call.size
\* (mutant: the buffer test inverted)
BufferFullInverted(buf) == buf < BUFFER_LIMIT
\* while (this.dataChannel.bufferedAmount > 1024 * 1024)
BufferFull(buf) == buf > BUFFER_LIMIT

\* The chunk loop of sendFile from one await to the next.  s.at is where the
\* run stands: "top" at the while test, "check" at the buffer test with the
\* packet built.  s.buf is bufferedAmount, s.out the messages sent and s.evs
\* the events emitted so far in this run.  The result's call.pc is where the
\* run stopped: at an await, at the return, or at a throw.
RECURSIVE RunLoop(_)
RunLoop(s) ==
    LET call == s.call IN
    IF s.at = "top"
    THEN IF MoreChunks(call)
         THEN LET chunk == Bytes(call.id, call.offset,
                                 Min(call.offset + CHUNK_SIZE, call.size))
              IN IF Keyed
                 THEN [s EXCEPT !.call.pc = "encChunk", !.call.key = sharedKey,
                                !.call.pkt = Packet(call.id, chunk)]
                 ELSE RunLoop([s EXCEPT !.at = "check",
                                        !.call.pkt = Packet(call.id, chunk)])
         ELSE IF CanSend
              THEN [s EXCEPT !.call.pc = "done",
                             !.buf = @ + MessageLength(CompleteMsg(call.id)),
                             !.out = Append(@, CompleteMsg(call.id)),
                             !.evs = Append(@, SendCompleted(call))]
              ELSE [s EXCEPT !.call = Rejected(call, SendError)]
    ELSE IF dataChannel = Null
         THEN [s EXCEPT !.call = Rejected(call, TypeError)]
         ELSE IF BufferFull(s.buf)
              THEN [s EXCEPT !.call.pc = "bufferWait", !.call.waited = TRUE,
                             !.call.sawLow = (call.pc = "bufferWait" /\ call.sawLow)]
              ELSE IF readyState # "open"
                   THEN [s EXCEPT !.call = Rejected(call, InvalidState)]
                   ELSE RunLoop([s EXCEPT !.at = "top",
                                          !.buf = @ + MessageLength(call.pkt),
                                          !.out = Append(@, call.pkt),
                                          !.evs = Append(@, SendProgress(call)),
                                          !.call.offset = @ + CHUNK_SIZE])

\* What one run of the loop does to the state.
Resume(c, at, call) ==
    LET r == RunLoop([at |-> at, call |-> call, buf |-> bufferedAmount,
                      out |-> <<>>, evs |-> <<>>])
    IN /\ tx' = [tx EXCEPT ![c] = r.call]
       /\ bufferedAmount' = r.buf
       /\ sent' = sent \o r.out
       /\ wire' = wire \o r.out
       /\ fileEvents' = emitFiles(fileEvents, r.evs)

\* this.dataChannel.send(JSON.stringify(meta)), then await file.arrayBuffer().
SendMeta(c, call) ==
    IF CanSend
    THEN LET m == MetaMsg(call.id, call.name, call.size, call.ftype, call.encrypted)
         IN /\ tx' = [tx EXCEPT ![c] = [call EXCEPT !.pc = "readFile",
                                                      !.channel = dataChannel]]
            /\ bufferedAmount' = bufferedAmount + MessageLength(m)
            /\ sent' = Append(sent, m)
            /\ wire' = Append(wire, m)
    ELSE /\ tx' = [tx EXCEPT ![c] = Rejected(call, SendError)]
         /\ UNCHANGED <<bufferedAmount, sent, wire>>

\* sendFile(file) up to its first await.
sendFile(c, size) ==
    /\ tx[c].pc = "idle"
    /\ \A d \in 1..(c - 1) : tx[d].pc # "idle"
    /\ IF ~CanSend
       THEN /\ tx' = [tx EXCEPT ![c] = Rejected(IdleCall, NotReady)]
            /\ UNCHANGED <<bufferedAmount, sent, wire>>
       ELSE LET call == [IdleCall EXCEPT !.id = randomUUID(c), !.size = size,
                                         !.name = FileName(c), !.ftype = FileType(c),
                                         !.encrypted = isEncrypted]
            IN IF Keyed
               THEN /\ tx' = [tx EXCEPT ![c] =
                           [call EXCEPT !.pc = "encName", !.key = sharedKey]]
                    /\ UNCHANGED <<bufferedAmount, sent, wire>>
               ELSE SendMeta(c, call)
    /\ UNCHANGED <<sessionVars, rxVars, fileEvents, injected>>
    /\ UNCHANGED handlerVars
    /\ UNCHANGED codec

\* encryptString(name) settles; encryptString(this.sharedKey, file.type) starts.
TxEncName(c) ==
    /\ tx[c].pc = "encName"
    /\ tx' = [tx EXCEPT ![c] =
           [tx[c] EXCEPT !.pc = "encType",
                         !.name = encryptString(tx[c].key, tx[c].name),
                         !.key = sharedKey]]
    /\ UNCHANGED <<sessionVars, rxVars, fileEvents, bufferedAmount, sent, wire, injected>>
    /\ UNCHANGED handlerVars
    /\ UNCHANGED codec

\* encryptString(fileType) settles (rejects on a null key); the meta is sent.
TxEncType(c) ==
    /\ tx[c].pc = "encType"
    /\ IF tx[c].key = NoKey
       THEN /\ tx' = [tx EXCEPT ![c] = Rejected(tx[c], TypeError)]
            /\ UNCHANGED <<bufferedAmount, sent, wire>>
       ELSE SendMeta(c, [tx[c] EXCEPT !.ftype = encryptString(tx[c].key, tx[c].ftype)])
    /\ UNCHANGED <<sessionVars, rxVars, fileEvents, injected>>
    /\ UNCHANGED handlerVars
    /\ UNCHANGED codec

\* file.arrayBuffer() settles; the chunk loop starts.
TxRead(c) ==
    /\ tx[c].pc = "readFile"
    /\ Resume(c, "top", tx[c])
    /\ UNCHANGED <<sessionVars, rxVars, injected>>
    /\ UNCHANGED handlerVars
    /\ UNCHANGED codec

\* (mutant: the packet is built from the chunk instead of the ciphertext)
TxEncChunkRaw(c) ==
    /\ tx[c].pc = "encChunk"
    /\ Resume(c, "check", tx[c])
    /\ UNCHANGED <<sessionVars, rxVars, injected>>
    /\ UNCHANGED handlerVars
    /\ UNCHANGED codec

\* encryptData(chunk) settles; the packet is built and the buffer tested.
TxEncChunk(c) ==
    /\ tx[c].pc = "encChunk"
    /\ Resume(c, "check",
              [tx[c] EXCEPT !.pkt =
                  Packet(tx[c].id, encryptData(tx[c].key, tx[c].pkt.body))])
    /\ UNCHANGED <<sessionVars, rxVars, injected>>
    /\ UNCHANGED handlerVars
    /\ UNCHANGED codec

\* (mutant: the poll goes on waiting while there is no channel)
TxPollIfChannel(c) ==
    /\ tx[c].pc = "bufferWait"
    /\ dataChannel # Null
    /\ Resume(c, "check", tx[c])
    /\ UNCHANGED <<sessionVars, rxVars, injected>>
    /\ UNCHANGED handlerVars
    /\ UNCHANGED codec

\* The 10 ms timer of the buffer wait fires; the buffer is tested again.
TxPoll(c) ==
    /\ tx[c].pc = "bufferWait"
    /\ Resume(c, "check", tx[c])
    /\ UNCHANGED <<sessionVars, rxVars, injected>>
    /\ UNCHANGED handlerVars
    /\ UNCHANGED codec

\* The transport takes bytes out of the channel's buffer.  bufferedamountlow
\* fires when the amount falls to bufferedAmountLowThreshold, which the code
\* never sets and so is 0.
DrainLevels == {0, BUFFER_LIMIT - CHUNK_SIZE, BUFFER_LIMIT}
Drain ==
    /\ readyState = "open"
    /\ \E v \in DrainLevels :
          /\ v < bufferedAmount
          /\ bufferedAmount' = v
          /\ tx' = [c \in DOMAIN tx |->
                      IF v = 0 /\ tx[c].pc = "bufferWait"
                      THEN [tx[c] EXCEPT !.sawLow = TRUE] ELSE tx[c]]
    /\ UNCHANGED <<sessionVars, rxVars, fileEvents, sent, wire, injected>>
    /\ UNCHANGED handlerVars
    /\ UNCHANGED codec

\* ------------------------------------------------------------ end to end
NoEvents == [side \in {"tx", "rx"} |-> [id \in TransferIds |-> <<>>]]

\* No codec run.
NoCodec == [stage |-> "none"]

\* No handshake call in progress.
IdleHandshake ==
    [op |-> "none", pc |-> "done", peerKey |-> "", epoch |-> 0, n |-> 0,
     timer |-> FALSE]
NoConnection == [state |-> "none", role |-> "none"]

\* An established session, keyed or not, on connection 1: the channel is
\* open and nothing has been transferred.
Established ==
    /\ peerConnection = 1
    /\ conn = [k \in 1..MaxHandshakes |->
                 IF k = 1 THEN [state |-> "stable", role |-> "offerer"]
                 ELSE NoConnection]
    /\ hs = IdleHandshake
    /\ epoch = 0
    /\ dataChannel = 1
    /\ readyState = "open"
    /\ sharedKey \in {NoKey, "k1"}
    /\ keyPair = (IF sharedKey = NoKey THEN NoKey ELSE "kp")
    /\ isEncrypted = (sharedKey # NoKey)
    /\ receivedChunks = <<>>
    /\ receivedMeta = <<>>
    /\ fileEvents = NoEvents
    /\ msgEvents = <<>>
    /\ wire = <<>>
    /\ rx = <<>>
    /\ rxThrown = 0
    /\ lastRx = NoOutcome
    /\ tx = [c \in 1..MaxCalls |-> IdleCall]
    /\ sent = <<>>
    /\ injected = 0
    /\ messageHandlers = {1}
    /\ fileHandlers = {1}

Init == Established /\ bufferedAmount = 0 /\ codec = NoCodec

Next ==
    \/ \E c \in 1..MaxCalls, size \in FileSizes : sendFile(c, size)
    \/ \E c \in 1..MaxCalls : TxEncName(c)
    \/ \E c \in 1..MaxCalls : TxEncType(c)
    \/ \E c \in 1..MaxCalls : TxRead(c)
    \/ \E c \in 1..MaxCalls : TxEncChunk(c)
    \/ Deliver
    \/ \E i \in 1..MaxCalls * (MaxChunks + 1) : RxDecName(i)
    \/ \E i \in 1..MaxCalls * (MaxChunks + 1) : RxDecType(i)
    \/ \E i \in 1..MaxCalls * (MaxChunks + 1) : RxDecChunk(i)

Spec == Init /\ [][Next]_vars

\* ------------------------------------------------------------ receiver alone
\* What the remote peer may put on the wire itself.  prot is how the message
\* is protected: "plain", under the session key "k1", under another key
\* "k2", or under "k1" and damaged in transit ("bad").
\* Two transfer ids, named in the order the peer first uses them.
InjectIds(n) == IF n = 0 THEN {1} ELSE {1, 2}
Protections == {"plain", "k1", "bad"}
Protect(prot, s) ==
    IF prot = "plain" THEN s
    ELSE IF prot = "bad" THEN [s EXCEPT !.key = "k1", !.bad = TRUE]
    ELSE [s EXCEPT !.key = prot]
\* Declared sizes of injected file-meta; injected chunks are ChunkBytes long.
DeclaredSize == 2
ChunkBytes == 1
InjectedMeta(id, prot) ==
    MetaMsg(id, Protect(prot, Str("name")), DeclaredSize, Str("mime"), prot # "plain")
InjectedChunk(id, prot, n) ==
    Packet(id, Protect(prot, Bytes(id, n * ChunkBytes, (n + 1) * ChunkBytes)))
Malformed == [OtherMsg(0) EXCEPT !.type = "malformed"]
Alphabet(n) ==
    { InjectedMeta(id, prot) : id \in InjectIds(n), prot \in Protections }
    \cup { InjectedChunk(id, prot, n) : id \in InjectIds(n), prot \in Protections }
    \cup { CompleteMsg(id) : id \in InjectIds(n) }
    \cup { OtherMsg(0), Malformed }

Inject(m) ==
    /\ injected < MaxInject
    /\ readyState = "open"
    /\ injected' = injected + 1
    /\ wire' = Append(wire, m)
    /\ UNCHANGED <<sessionVars, rxVars, txVars, fileEvents>>
    /\ UNCHANGED handlerVars
    /\ UNCHANGED codec

NextRecv ==
    \/ \E m \in Alphabet(injected) : Inject(m)
    \/ Deliver
    \/ \E i \in 1..MaxInject : RxDecName(i)
    \/ \E i \in 1..MaxInject : RxDecType(i)
    \/ \E i \in 1..MaxInject : RxDecChunk(i)

SpecRecv == Init /\ [][NextRecv]_vars

\* ------------------------------------------------------------ session
\* The public-key strings a caller may hand to handleOffer / handleAnswer.
PeerKeys == {"valid", "garbage"}
\* importPublicKey resolves iff the string is the base64 of a JWK.
CanImport(str) == str = "valid"
\* deriveSharedKey(own private key, peer public key): the session's AES key.
deriveSharedKey(pair, peerKey) == "k1"

Pending == hs.pc \notin {"done", "rejected"}
Call(op, pc, peerKey) ==
    [op |-> op, pc |-> pc, peerKey |-> peerKey, epoch |-> epoch, n |-> hs.n + 1,
     timer |-> FALSE]
\* timer: the setTimeout of the call's waitForIceGathering is armed.  The
\* timer of an earlier call, when it fires, finds its promise settled and
\* its listener gone, and does nothing: it is not kept.
\* The number the next new RTCPeerConnection gets.
FreshConnection == CHOOSE k \in 1..MaxHandshakes :
                      conn[k].state = "none" /\ \A j \in 1..(k - 1) : conn[j].state # "none"

\* A caller starts a handshake call when none is in progress; an offer is
\* made or taken only on a manager that holds no connection.
CanCall == ~Pending /\ hs.n < MaxHandshakes

\* createOffer() up to await generateKeyPair().
createOffer ==
    /\ CanCall
    /\ peerConnection = Null
    /\ hs' = Call("createOffer", "genKey", "")
    /\ UNCHANGED <<peerConnection, conn, keyPair, epoch, dataChannel, readyState,
                   sharedKey, isEncrypted, rxVars, txVars, fileEvents, wire, injected>>
    /\ UNCHANGED handlerVars
    /\ UNCHANGED codec

\* handleOffer(offer, peerPublicKey) up to await generateKeyPair().
handleOffer(peerKey) ==
    /\ CanCall
    /\ peerConnection = Null
    /\ hs' = Call("handleOffer", "genKey", peerKey)
    /\ UNCHANGED <<peerConnection, conn, keyPair, epoch, dataChannel, readyState,
                   sharedKey, isEncrypted, rxVars, txVars, fileEvents, wire, injected>>
    /\ UNCHANGED handlerVars
    /\ UNCHANGED codec

\* handleAnswer(answer, peerPublicKey) up to its first await.
handleAnswer(peerKey) ==
    /\ CanCall
    /\ hs' = Call("handleAnswer",
                  IF keyPair # NoKey THEN "import"
                  ELSE IF peerConnection # Null THEN "setRemote" ELSE "done",
                  peerKey)
    /\ UNCHANGED <<peerConnection, conn, keyPair, epoch, dataChannel, readyState,
                   sharedKey, isEncrypted, rxVars, txVars, fileEvents, wire, injected>>
    /\ UNCHANGED handlerVars
    /\ UNCHANGED codec

\* generateKeyPair() settles: this.keyPair is set, exportPublicKey starts.
HsGenKey ==
    /\ hs.pc = "genKey"
    /\ keyPair' = "kp"
    /\ hs' = [hs EXCEPT !.pc = "export"]
    /\ UNCHANGED <<peerConnection, conn, epoch, dataChannel, readyState,
                   sharedKey, isEncrypted, rxVars, txVars, fileEvents, wire, injected>>
    /\ UNCHANGED handlerVars
    /\ UNCHANGED codec

\* exportPublicKey() settles.  createOffer makes the connection and its data
\* channel, whose buffer is empty, and asks for the offer; handleOffer starts
\* importPublicKey.
HsExport ==
    /\ hs.pc = "export"
    /\ IF hs.op = "createOffer"
       THEN /\ peerConnection' = FreshConnection
            /\ conn' = [conn EXCEPT ![FreshConnection] =
                           [state |-> "new", role |-> "offerer"]]
            /\ dataChannel' = FreshConnection
            /\ readyState' = "connecting"
            /\ bufferedAmount' = 0
            /\ hs' = [hs EXCEPT !.pc = "describe"]
       ELSE /\ hs' = [hs EXCEPT !.pc = "import"]
            /\ UNCHANGED <<peerConnection, conn, dataChannel, readyState,
                           bufferedAmount>>
    /\ UNCHANGED <<keyPair, epoch, sharedKey, isEncrypted, rxVars, tx, sent,
                   fileEvents, wire, injected>>
    /\ UNCHANGED handlerVars
    /\ UNCHANGED codec

\* (mutant: encryption is switched on before deriveSharedKey is awaited)
HsImportEnabling ==
    /\ hs.pc = "import"
    /\ hs' = [hs EXCEPT !.pc = IF CanImport(hs.peerKey) /\ keyPair # NoKey
                               THEN "derive" ELSE "rejected"]
    /\ isEncrypted' = (isEncrypted \/ (CanImport(hs.peerKey) /\ keyPair # NoKey))
    /\ UNCHANGED <<peerConnection, conn, keyPair, epoch, dataChannel, readyState,
                   sharedKey, rxVars, txVars, fileEvents, wire, injected>>
    /\ UNCHANGED handlerVars
    /\ UNCHANGED codec

\* importPublicKey() settles: it rejects on a bad string, and reading
\* this.keyPair.privateKey throws when the pair is null; else deriveSharedKey
\* starts.
HsImport ==
    /\ hs.pc = "import"
    /\ hs' = [hs EXCEPT !.pc = IF CanImport(hs.peerKey) /\ keyPair # NoKey
                               THEN "derive" ELSE "rejected"]
    /\ UNCHANGED <<peerConnection, conn, keyPair, epoch, dataChannel, readyState,
                   sharedKey, isEncrypted, rxVars, txVars, fileEvents, wire, injected>>
    /\ UNCHANGED handlerVars
    /\ UNCHANGED codec

\* (mutant: handleOffer connects without storing the derived key)
HsDeriveWithoutKey ==
    /\ hs.pc = "derive"
    /\ IF hs.op = "handleOffer"
       THEN /\ peerConnection' = FreshConnection
            /\ conn' = [conn EXCEPT ![FreshConnection] =
                           [state |-> "new", role |-> "answerer"]]
            /\ hs' = [hs EXCEPT !.pc = "setRemote"]
            /\ UNCHANGED <<sharedKey, isEncrypted>>
       ELSE /\ sharedKey' = deriveSharedKey(keyPair, hs.peerKey)
            /\ isEncrypted' = TRUE
            /\ hs' = [hs EXCEPT !.pc = IF peerConnection # Null
                                       THEN "setRemote" ELSE "done"]
            /\ UNCHANGED <<peerConnection, conn>>
    /\ UNCHANGED <<keyPair, epoch, dataChannel, readyState, rxVars, txVars,
                   fileEvents, wire, injected>>
    /\ UNCHANGED handlerVars
    /\ UNCHANGED codec

\* deriveSharedKey() settles: the key is stored and encryption switched on.
\* handleOffer then makes the connection and sets the remote description;
\* handleAnswer sets it on the connection it holds, if any.
HsDerive ==
    /\ hs.pc = "derive"
    /\ sharedKey' = deriveSharedKey(keyPair, hs.peerKey)
    /\ isEncrypted' = TRUE
    /\ IF hs.op = "handleOffer"
       THEN /\ peerConnection' = FreshConnection
            /\ conn' = [conn EXCEPT ![FreshConnection] =
                           [state |-> "new", role |-> "answerer"]]
            /\ hs' = [hs EXCEPT !.pc = "setRemote"]
       ELSE /\ hs' = [hs EXCEPT !.pc = IF peerConnection # Null
                                       THEN "setRemote" ELSE "done"]
            /\ UNCHANGED <<peerConnection, conn>>
    /\ UNCHANGED <<keyPair, epoch, dataChannel, readyState, rxVars, txVars,
                   fileEvents, wire, injected>>
    /\ UNCHANGED handlerVars
    /\ UNCHANGED codec

\* setRemoteDescription() settles.  In handleOffer the next line reads
\* this.peerConnection, which throws once it is null; handleAnswer returns.
\* An answer is accepted only by a connection that has made its offer.
HsSetRemote ==
    /\ hs.pc = "setRemote"
    /\ IF peerConnection = Null
       THEN /\ hs' = [hs EXCEPT !.pc = "rejected"]
            /\ UNCHANGED conn
       ELSE IF hs.op = "handleOffer"
       THEN /\ conn' = [conn EXCEPT ![peerConnection].state = "have-remote-offer"]
            /\ hs' = [hs EXCEPT !.pc = "describe"]
       ELSE IF conn[peerConnection].state = "have-local-offer"
       THEN /\ conn' = [conn EXCEPT ![peerConnection].state = "stable"]
            /\ hs' = [hs EXCEPT !.pc = "done"]
       ELSE /\ hs' = [hs EXCEPT !.pc = "rejected"]
            /\ UNCHANGED conn
    /\ UNCHANGED <<peerConnection, keyPair, epoch, dataChannel, readyState,
                   sharedKey, isEncrypted, rxVars, txVars, fileEvents, wire, injected>>
    /\ UNCHANGED handlerVars
    /\ UNCHANGED codec

\* peerConnection.createOffer() / createAnswer() settles; the next line
\* calls this.peerConnection.setLocalDescription.
HsDescribe ==
    /\ hs.pc = "describe"
    /\ hs' = [hs EXCEPT !.pc = IF peerConnection = Null THEN "rejected" ELSE "setLocal"]
    /\ UNCHANGED <<peerConnection, conn, keyPair, epoch, dataChannel, readyState,
                   sharedKey, isEncrypted, rxVars, txVars, fileEvents, wire, injected>>
    /\ UNCHANGED handlerVars
    /\ UNCHANGED codec

\* setLocalDescription() settles; waitForIceGathering starts: with no
\* connection it resolves at once and the call throws on reading
\* this.peerConnection.localDescription; else it adds its listener and arms
\* its timer.
HsSetLocal ==
    /\ hs.pc = "setLocal"
    /\ IF peerConnection = Null
       THEN /\ hs' = [hs EXCEPT !.pc = "rejected"]
            /\ UNCHANGED conn
       ELSE /\ hs' = [hs EXCEPT !.pc = "ice", !.timer = TRUE]
            /\ conn' = [conn EXCEPT ![peerConnection].state =
                           IF hs.op = "createOffer" THEN "have-local-offer" ELSE "stable"]
    /\ UNCHANGED <<peerConnection, keyPair, epoch, dataChannel, readyState,
                   sharedKey, isEncrypted, rxVars, txVars, fileEvents, wire, injected>>
    /\ UNCHANGED handlerVars
    /\ UNCHANGED codec

\* The wait has resolved: the call reads this.peerConnection.localDescription
\* and returns its blobs.
HsIce(call) ==
    [call EXCEPT !.pc = IF peerConnection = Null THEN "rejected" ELSE "done"]

\* onStateChange: the connection the manager holds reports gathering
\* 'complete'; the wait resolves.  The timer stays armed.
onStateChange ==
    /\ hs.pc = "ice"
    /\ peerConnection # Null
    /\ hs' = HsIce(hs)
    /\ UNCHANGED <<peerConnection, conn, keyPair, epoch, dataChannel, readyState,
                   sharedKey, isEncrypted, rxVars, txVars, fileEvents, wire, injected>>
    /\ UNCHANGED handlerVars
    /\ UNCHANGED codec

\* (mutant: the timer removes the listener and forgets to resolve)
IceTimeoutSilent ==
    /\ hs.timer
    /\ hs' = [hs EXCEPT !.timer = FALSE]
    /\ UNCHANGED <<peerConnection, conn, keyPair, epoch, dataChannel, readyState,
                   sharedKey, isEncrypted, rxVars, txVars, fileEvents, wire, injected>>
    /\ UNCHANGED handlerVars
    /\ UNCHANGED codec

\* The timer of waitForIceGathering fires after timeoutMs: it removes the
\* listener and calls resolve(), which does nothing if the wait has resolved.
IceTimeout ==
    /\ hs.timer
    /\ hs' = IF hs.pc = "ice" THEN [HsIce(hs) EXCEPT !.timer = FALSE]
             ELSE [hs EXCEPT !.timer = FALSE]
    /\ UNCHANGED <<peerConnection, conn, keyPair, epoch, dataChannel, readyState,
                   sharedKey, isEncrypted, rxVars, txVars, fileEvents, wire, injected>>
    /\ UNCHANGED handlerVars
    /\ UNCHANGED codec

\* (mutant: a channel that is not open, closed ones included, may open)
ChannelOpenAgain ==
    /\ dataChannel # Null
    /\ readyState # "open"
    /\ conn[dataChannel].state = "stable"
    /\ readyState' = "open"
    /\ UNCHANGED <<handshakeVars, dataChannel, sharedKey, isEncrypted, rxVars,
                   txVars, fileEvents, wire, injected>>
    /\ UNCHANGED handlerVars
    /\ UNCHANGED codec

\* channel.onopen: the offerer's channel opens once its connection has both
\* descriptions.
ChannelOpen ==
    /\ dataChannel # Null
    /\ readyState = "connecting"
    /\ conn[dataChannel].state = "stable"
    /\ readyState' = "open"
    /\ UNCHANGED <<handshakeVars, dataChannel, sharedKey, isEncrypted, rxVars,
                   txVars, fileEvents, wire, injected>>
    /\ UNCHANGED handlerVars
    /\ UNCHANGED codec

\* peerConnection.ondatachannel on the answerer: the peer's channel arrives,
\* its buffer empty, and its onopen fires.
ondatachannel ==
    /\ peerConnection # Null
    /\ conn[peerConnection] = [state |-> "stable", role |-> "answerer"]
    /\ dataChannel = Null
    /\ dataChannel' = peerConnection
    /\ readyState' = "open"
    /\ bufferedAmount' = 0
    /\ UNCHANGED <<handshakeVars, sharedKey, isEncrypted, rxVars, tx, sent,
                   fileEvents, wire, injected>>
    /\ UNCHANGED handlerVars
    /\ UNCHANGED codec

\* channel.onclose: the channel closes under the manager (the peer leaves, the
\* transport fails).
ChannelClose ==
    /\ readyState = "open"
    /\ readyState' = "closed"
    /\ UNCHANGED <<handshakeVars, dataChannel, sharedKey, isEncrypted, rxVars,
                   txVars, fileEvents, wire, injected>>
    /\ UNCHANGED handlerVars
    /\ UNCHANGED codec

\* (mutant: the teardown forgets the shared key)
disconnectKeepingKey ==
    /\ epoch < MaxDisconnects
    /\ epoch' = epoch + 1
    /\ readyState' = (IF peerConnection # Null /\ dataChannel # Null THEN "closed"
                      ELSE IF dataChannel # Null THEN "closing" ELSE readyState)
    /\ conn' = [k \in DOMAIN conn |->
                  IF k = peerConnection THEN [conn[k] EXCEPT !.state = "closed"]
                  ELSE conn[k]]
    /\ wire' = <<>>
    /\ dataChannel' = Null
    /\ peerConnection' = Null
    /\ receivedChunks' = <<>>
    /\ receivedMeta' = <<>>
    /\ keyPair' = NoKey
    /\ UNCHANGED <<sharedKey, isEncrypted>>
    /\ UNCHANGED <<hs, rx, rxThrown, lastRx, msgEvents, txVars, fileEvents, injected>>
    /\ UNCHANGED handlerVars
    /\ UNCHANGED codec

\* disconnect().  Closing the connection closes its channel, and what the
\* channel had not yet dispatched is never dispatched.
disconnect ==
    /\ epoch < MaxDisconnects
    /\ epoch' = epoch + 1
    /\ readyState' = (IF peerConnection # Null /\ dataChannel # Null THEN "closed"
                      ELSE IF dataChannel # Null THEN "closing" ELSE readyState)
    /\ conn' = [k \in DOMAIN conn |->
                  IF k = peerConnection THEN [conn[k] EXCEPT !.state = "closed"]
                  ELSE conn[k]]
    /\ wire' = <<>>
    /\ dataChannel' = Null
    /\ peerConnection' = Null
    /\ receivedChunks' = <<>>
    /\ receivedMeta' = <<>>
    /\ keyPair' = NoKey
    /\ sharedKey' = NoKey
    /\ isEncrypted' = FALSE
    /\ UNCHANGED <<hs, rx, rxThrown, lastRx, msgEvents, txVars, fileEvents, injected>>
    /\ UNCHANGED handlerVars
    /\ UNCHANGED codec

\* A manager as constructed.
InitSession ==
    /\ peerConnection = Null
    /\ conn = [k \in 1..MaxHandshakes |-> NoConnection]
    /\ keyPair = NoKey
    /\ hs = IdleHandshake
    /\ epoch = 0
    /\ dataChannel = Null
    /\ readyState = "none"
    /\ bufferedAmount = 0
    /\ sharedKey = NoKey
    /\ isEncrypted = FALSE
    /\ receivedChunks = <<>>
    /\ receivedMeta = <<>>
    /\ fileEvents = NoEvents
    /\ msgEvents = <<>>
    /\ wire = <<>>
    /\ rx = <<>>
    /\ rxThrown = 0
    /\ lastRx = NoOutcome
    /\ tx = [c \in 1..MaxCalls |-> IdleCall]
    /\ sent = <<>>
    /\ injected = 0
    /\ messageHandlers = {}
    /\ fileHandlers = {}
    /\ codec = NoCodec

\* What the peer sends in a session, MaxSessionInject messages at most: one
\* transfer, its metadata in the clear or encrypted, encrypted chunks, the
\* completion.
SessionAlphabet(n) ==
    IF n >= MaxSessionInject THEN {}
    ELSE { InjectedMeta(1, "plain"), InjectedMeta(1, "k1"),
           InjectedChunk(1, "k1", n), CompleteMsg(1) }

NextSession ==
    \/ createOffer
    \/ \E peerKey \in PeerKeys : handleOffer(peerKey)
    \/ \E peerKey \in PeerKeys : handleAnswer(peerKey)
    \/ HsGenKey
    \/ HsExport
    \/ HsImport
    \/ HsDerive
    \/ HsSetRemote
    \/ HsDescribe
    \/ HsSetLocal
    \/ onStateChange
    \/ IceTimeout
    \/ ChannelOpen
    \/ ondatachannel
    \/ ChannelClose
    \/ disconnect
    \/ \E m \in SessionAlphabet(injected) : Inject(m)
    \/ Deliver
    \/ \E i \in 1..MaxInject : RxDecName(i)
    \/ \E i \in 1..MaxInject : RxDecType(i)
    \/ \E i \in 1..MaxInject : RxDecChunk(i)

SpecSession == InitSession /\ [][NextSession]_vars

\* The same, where an armed timer does fire (setTimeout always calls back).
SpecSessionFair == SpecSession /\ WF_vars(IceTimeout)

\* ------------------------------------------------------------ sender alone
\* An established session whose channel buffer holds what earlier sends
\* left in it: nothing, exactly the limit, or more than the limit.  The
\* first MaxSendCalls calls of sendFile are made, while the channel may close
\* under them and the application may call disconnect().
SendLevels == {0, BUFFER_LIMIT, BUFFER_LIMIT + 1}
InitSender == Established /\ bufferedAmount \in SendLevels /\ codec = NoCodec

NextSend ==
    \/ \E c \in 1..MaxSendCalls, size \in FileSizes : sendFile(c, size)
    \/ \E c \in 1..MaxSendCalls : TxEncName(c)
    \/ \E c \in 1..MaxSendCalls : TxEncType(c)
    \/ \E c \in 1..MaxSendCalls : TxRead(c)
    \/ \E c \in 1..MaxSendCalls : TxEncChunk(c)
    \/ \E c \in 1..MaxSendCalls : TxPoll(c)
    \/ Drain
    \/ ChannelClose
    \/ disconnect

SpecSend == InitSender /\ [][NextSend]_vars

\* The poll of a waiting call that finds the channel gone.
PollAfterDisconnect(c) == dataChannel = Null /\ TxPoll(c)

\* One call of sendFile on the same session, where the 10 ms timer of the
\* waiting call does fire; the assumption is needed, and made, only for the
\* polls that follow disconnect().
NextSendOne ==
    \/ \E size \in FileSizes : sendFile(1, size)
    \/ TxEncName(1)
    \/ TxEncType(1)
    \/ TxRead(1)
    \/ TxEncChunk(1)
    \/ TxPoll(1)
    \/ Drain
    \/ ChannelClose
    \/ disconnect

SpecSendFair == InitSender /\ [][NextSendOne]_vars /\ WF_vars(PollAfterDisconnect(1))

\* ------------------------------------------------------------ properties
\* The chunk payloads transfer id was sent, in send order, as plaintext.
SentFrames(id) == SelectSeq(sent, LAMBDA m : m.type = "binary" /\ m.id = id)
SentChunks(id) ==
    [i \in 1..Len(SentFrames(id)) |-> [SentFrames(id)[i].body EXCEPT !.key = Plain]]
\* The payloads accumulated for id, in list order.
ReceivedData(id) ==
    [i \in 1..Len(receivedChunks[id]) |-> receivedChunks[id][i].data]
\* The 'completed' events the receiver has emitted for id.
Completed(id) ==
    SelectSeq(fileEvents["rx"][id], LAMBDA ev : ev.status = "completed")

\* parts, in order, are exactly bytes from..n-1 of file id and nothing else:
\* no part's buffer holds header bytes, ciphertext or another file's bytes.
RECURSIVE IsFileBytes(_, _, _, _)
IsFileBytes(parts, id, from, n) ==
    IF parts = <<>> THEN from = n
    ELSE LET p == Head(parts) IN
         /\ p.hdr = 0
         /\ p.data.key = Plain
         /\ ~p.data.bad
         /\ p.data.src = id
         /\ p.data.lo = from
         /\ p.data.hi >= from
         /\ IsFileBytes(Tail(parts), id, p.data.hi, n)
RECURSIVE BlobSize(_)
BlobSize(parts) ==
    IF parts = <<>> THEN 0 ELSE BufferLength(Head(parts)) + BlobSize(Tail(parts))

\* Position of chunk x in the sequence seq (0 when absent).
IndexOf(seq, x) ==
    IF \E i \in 1..Len(seq) : seq[i] = x
    THEN CHOOSE i \in 1..Len(seq) : seq[i] = x
    ELSE 0

\* C1: the blob of every 'completed' event the receiver emits is
\* byte-identical to the file sent under that id and has its size.
C1_BlobIsOriginal ==
    \A id \in TransferIds :
       \A i \in 1..Len(Completed(id)) :
          LET blob == Completed(id)[i].data.parts IN
          /\ IsFileBytes(blob, id, 0, tx[id].size)
          /\ BlobSize(blob) = tx[id].size

\* C1, keyed sessions only: the same statement where a shared key is set.
C1_BlobIsOriginalKeyed == Keyed => C1_BlobIsOriginal

\* C3: the accumulation list of every id holds chunks in the order the
\* sender sent them: each one was sent, and later in the list means sent later.
C3_AppendOrderIsSendOrder ==
    \A id \in DOMAIN receivedChunks :
       LET got == ReceivedData(id)
           out == SentChunks(id)
       IN /\ \A i \in 1..Len(got) : IndexOf(out, got[i]) > 0
          /\ \A i, j \in 1..Len(got) :
                i < j => IndexOf(out, got[i]) < IndexOf(out, got[j])

\* The step dispatches message m to channel.onmessage.
Dispatched(m) ==
    wire # <<>> /\ wire' = Tail(wire) /\ m = Head(wire) /\ epoch' = epoch

\* C4: when file-complete for a registered id is dispatched, so that
\* reassembly runs, no chunk frame of that id that arrived before it is still
\* awaiting its decryption.
C4_NoChunkPendingAtComplete ==
    [][ \A id \in DOMAIN receivedMeta :
           Dispatched(CompleteMsg(id))
           => ~\E i \in 1..Len(rx) : rx[i].pc = "decChunk" /\ rx[i].msg.id = id ]_vars

\* Chunk frames of x and y were sent interleaved: one of y between two of x.
Interleaved(x, y) ==
    \E i, j, k \in 1..Len(sent) :
       /\ i < j /\ j < k
       /\ sent[i].type = "binary" /\ sent[i].id = x
       /\ sent[j].type = "binary" /\ sent[j].id = y
       /\ sent[k].type = "binary" /\ sent[k].id = x

\* Every accumulated chunk came in a frame whose header names the list's id.
IdIsolation ==
    /\ \A id \in DOMAIN receivedChunks :
          \A i \in 1..Len(receivedChunks[id]) : receivedChunks[id][i].data.src = id
    /\ \A id \in TransferIds :
          \A i \in 1..Len(Completed(id)) :
             \A j \in 1..Len(Completed(id)[i].data.parts) :
                Completed(id)[i].data.parts[j].data.src = id

\* C5: when the chunks of two transfers x and y were interleaved, every
\* chunk is in the list of its own id and both completed blobs are the
\* concatenation of that id's own chunks.
C5_InterleavedBlobsCorrect ==
    \A x, y \in TransferIds :
       (x # y /\ Interleaved(x, y) /\ Completed(x) # <<>> /\ Completed(y) # <<>>)
       => /\ IdIsolation
          /\ IsFileBytes(Completed(x)[1].data.parts, x, 0, tx[x].size)
          /\ IsFileBytes(Completed(y)[1].data.parts, y, 0, tx[y].size)

\* ------------------------------------------------------------ sender claims
Ceil(n, c) == (n + c - 1) \div c
MessagesOf(id) == SelectSeq(sent, LAMBDA m : m.id = id)

\* C2: what a sendFile call has sent is at every moment a prefix of: one
\* file-meta, ceil(N / CHUNK_SIZE) binary frames, one file-complete, all under
\* its id; a call that has returned has sent all of it.
C2_MetaChunksComplete ==
    \A c \in 1..MaxCalls :
       LET out == MessagesOf(randomUUID(c))
           n == Ceil(tx[c].size, CHUNK_SIZE)
       IN /\ Len(out) <= n + 2
          /\ \A i \in 1..Len(out) :
                out[i].type = (IF i = 1 THEN "file-meta"
                               ELSE IF i <= n + 1 THEN "binary"
                               ELSE "file-complete")
          /\ (tx[c].pc = "done") <=> (tx[c].pc # "idle" /\ Len(out) = n + 2)

\* A call has returned after sending a file of exactly two full chunks.
C2_Witness ==
    \E c \in 1..MaxCalls :
       /\ tx[c].pc = "done"
       /\ tx[c].size = 2 * CHUNK_SIZE
       /\ Len(SentFrames(randomUUID(c))) = 2

RECURSIVE LengthBetween(_, _, _)
LengthBetween(seq, from, to) ==
    IF from > to THEN 0
    ELSE MessageLength(seq[from]) + LengthBetween(seq, from + 1, to)

AccumulationUnchanged == UNCHANGED <<receivedChunks, receivedMeta, fileEvents>>
\* The step is the continuation of the suspended handler at place i of rx.
Settles(i) == i \in 1..Len(rx) /\ rx' = RemoveAt(rx, i)

\* C6: a file-complete, or a chunk frame at its lookup, whose id is in neither
\* map changes neither map and emits no file event.
C6_UnknownIdIgnored ==
    [][ /\ \A m \in {Head(w) : w \in {wire} \ {<<>>}} :
              (Dispatched(m) /\ m.id \notin DOMAIN receivedMeta
                 /\ (m.type = "file-complete" \/ (m.type = "binary" /\ ~Keyed)))
              => AccumulationUnchanged
        /\ \A i \in 1..Len(rx) :
              (Settles(i) /\ rx[i].pc = "decChunk"
                 /\ rx[i].msg.id \notin DOMAIN receivedMeta)
              => AccumulationUnchanged ]_vars

\* A keyed session has decrypted a chunk and found its id unknown.
C6_Witness == Keyed /\ lastRx.what = "unknown-chunk"

\* C10: a chunk whose ciphertext fails authentication makes no handler call
\* end by throwing and changes neither map and no event log, at its dispatch
\* and when its decryption settles.
C10_AuthFailureContained ==
    [][ /\ \A m \in {Head(w) : w \in {wire} \ {<<>>}} :
              (Dispatched(m) /\ m.type = "binary" /\ Keyed
                 /\ m.body.key # Plain /\ ~CanDecrypt(sharedKey, m.body))
              => (rxThrown' = rxThrown /\ AccumulationUnchanged)
        /\ \A i \in 1..Len(rx) :
              (Settles(i) /\ rx[i].pc = "decChunk"
                 /\ ~CanDecrypt(rx[i].key, rx[i].msg.body))
              => (rxThrown' = rxThrown /\ AccumulationUnchanged) ]_vars

\* A chunk has just been dropped for failing authentication while another
\* transfer id is in flight with a chunk accumulated.
C10_Witness ==
    /\ lastRx.what = "auth-failed"
    /\ \E id \in DOMAIN receivedChunks :
          id # lastRx.id /\ receivedChunks[id] # <<>>

\* ------------------------------------------------------------ session claims
\* C8: when disconnect() returns, the channel and the connection the manager
\* held have been closed and both fields are null, both accumulation maps
\* are empty, and key pair, shared key and encryption flag are null, null
\* and false, whatever the state before.
C8_DisconnectPostcondition ==
    [][ epoch' # epoch
        => /\ dataChannel' = Null
           /\ peerConnection' = Null
           /\ dataChannel # Null => readyState' \in {"closing", "closed"}
           /\ peerConnection # Null => conn'[peerConnection].state = "closed"
           /\ receivedChunks' = <<>>
           /\ receivedMeta' = <<>>
           /\ keyPair' = NoKey
           /\ sharedKey' = NoKey
           /\ isEncrypted' = FALSE ]_vars

\* disconnect() has run on a keyed session that had registered a transfer:
\* the connection is closed and the maps are empty.
C8_Witness ==
    /\ epoch = 1
    /\ conn[1].state = "closed"
    /\ fileEvents["rx"][1] # <<>>
    /\ receivedMeta = <<>>
    /\ sharedKey = NoKey

\* The step is the continuation of a callback that was pending when
\* disconnect() last ran: a handshake call or a suspended message handler.
StaleContinuation ==
    \/ hs.pc \notin {"done", "rejected"} /\ hs.epoch < epoch /\ hs' # hs
    \/ \E i \in 1..Len(rx) :
          /\ rx[i].epoch < epoch
          /\ \/ rx' = RemoveAt(rx, i)
             \/ Len(rx') = Len(rx) /\ rx'[i] # rx[i]

\* C9: no callback that was pending when disconnect() ran changes the key
\* pair, the shared key, the encryption flag, the connection, the channel or
\* the accumulation maps, or emits a file event.
C9_NoStaleMutation ==
    [][ StaleContinuation
        => UNCHANGED <<keyPair, sharedKey, isEncrypted, peerConnection,
                       dataChannel, receivedChunks, receivedMeta, fileEvents>> ]_vars

\* ------------------------------------------------------------ failure claims
LastEvent(id) == fileEvents'["rx"][id][Len(fileEvents'["rx"][id])]

\* C11: a transfer that has had a chunk dropped for failing authentication
\* goes on: the drop leaves its map entries as they are, a later chunk of
\* the id that authenticates is appended, a file-complete emits 'completed'
\* with progress 100 and the blob of what was accumulated, and no event of
\* the id ever has status 'error'.
C11_DropDoesNotAbort ==
    [][ \A id \in lastRx'.failed :
          /\ \A i \in 1..Len(rx) :
                (Settles(i) /\ rx[i].pc = "decChunk" /\ rx[i].msg.id = id
                   /\ id \in DOMAIN receivedMeta)
                => IF CanDecrypt(rx[i].key, rx[i].msg.body)
                   THEN /\ id \in DOMAIN receivedChunks'
                        /\ receivedChunks'[id] =
                              Append(receivedChunks[id],
                                     View(0, decryptData(rx[i].key, rx[i].msg.body)))
                   ELSE /\ id \in DOMAIN receivedMeta'
                        /\ id \in DOMAIN receivedChunks'
                        /\ receivedChunks'[id] = receivedChunks[id]
                        /\ receivedMeta'[id] = receivedMeta[id]
          /\ (Dispatched(CompleteMsg(id)) /\ id \in DOMAIN receivedMeta)
             => /\ Len(fileEvents'["rx"][id]) = Len(fileEvents["rx"][id]) + 1
                /\ LastEvent(id).status = "completed"
                /\ LastEvent(id).progress = 100
                /\ LastEvent(id).data = BlobOf(receivedChunks[id])
          /\ \A k \in 1..Len(fileEvents'["rx"][id]) :
                fileEvents'["rx"][id][k].status \in {"transferring", "completed"} ]_vars

\* A transfer that lost a chunk to a failed authentication has completed
\* with progress 100 and a blob shorter than its declared size.
C11_Witness ==
    /\ lastRx.what = "reassembled"
    /\ lastRx.id \in lastRx.failed
    /\ \E k \in 1..Len(Completed(lastRx.id)) :
          /\ Completed(lastRx.id)[k].progress = 100
          /\ BlobSize(Completed(lastRx.id)[k].data.parts) < Completed(lastRx.id)[k].size

\* C12: when decryptString rejects on the name or the fileType of an
\* encrypted file-meta, the message is dropped: neither map gets its id and
\* no file event is emitted.
C12_FailedMetaDropped ==
    [][ \A i \in 1..Len(rx) :
          (Settles(i)
             /\ \/ rx[i].pc = "decName" /\ ~CanDecrypt(rx[i].key, rx[i].msg.name)
                \/ rx[i].pc = "decType" /\ ~CanDecrypt(rx[i].key, rx[i].msg.fileType))
          => AccumulationUnchanged ]_vars

\* The step is the start of sendFile call c.
Starts(c) == tx[c].pc = "idle" /\ tx'[c].pc # "idle"

\* C13: a sendFile call made while the channel is absent or not open is
\* rejected with 'Data channel not ready' at once: it sends nothing, emits
\* no file event and leaves connection, channel, keys, flag and maps as
\* they were.
C13_NotReadyRejects ==
    [][ \A c \in 1..MaxCalls :
          (Starts(c) /\ (dataChannel = Null \/ readyState # "open"))
          => /\ tx'[c].pc = "rejected"
             /\ tx'[c].error = NotReady
             /\ UNCHANGED <<sent, wire, bufferedAmount, fileEvents, msgEvents>>
             /\ UNCHANGED <<peerConnection, conn, dataChannel, readyState, keyPair,
                            sharedKey, isEncrypted, receivedChunks, receivedMeta>> ]_vars

\* sendFile has been rejected as not ready on a manager that holds no channel.
C13_Witness ==
    \E c \in 1..MaxCalls :
       tx[c].pc = "rejected" /\ tx[c].error = NotReady /\ dataChannel = Null

\* ------------------------------------------------------------ keying claims
\* The manager is the offerer of a session no disconnect() has ended:
\* between the start of createOffer and the moment handleAnswer has imported
\* the peer's public key.
OffererBeforeDerive ==
    \/ hs.op = "createOffer" /\ hs.pc # "rejected" /\ hs.epoch = epoch
    \/ /\ hs.op = "handleAnswer" /\ hs.pc = "import" /\ hs.epoch = epoch
       /\ peerConnection # Null
       /\ conn[peerConnection].role = "offerer"

\* C14: on the offerer, from the start of createOffer until handleAnswer has
\* imported the peer's public key, there is no shared key and encryption is
\* off, and once generateKeyPair has settled there is a key pair.
C14_OffererUnkeyedUntilAnswer ==
    OffererBeforeDerive
    => /\ sharedKey = NoKey
       /\ ~isEncrypted
       /\ (hs.op = "createOffer" /\ hs.pc # "genKey") => keyPair # NoKey

\* The manager's channel is the answerer's.
OnAnswerer == dataChannel # Null /\ conn[dataChannel].role = "answerer"

isConnected == dataChannel # Null /\ readyState = "open"

\* C16: in every reachable state where the data channel is open, the shared
\* key is present and encryption is enabled.
C16_OpenImpliesKeyed == isConnected => Keyed

\* ------------------------------------------------------------ lifecycle claims
\* C17 as amended: closing is final for the channel and the connection it
\* happens to: a closed connection stays closed, a channel that is closing
\* or closed never becomes open, and the manager never holds the channel of
\* a closed connection; isConnected() is true again only on the channel of
\* a connection made by a later createOffer or handleOffer.
C17_ClosedChannelStaysClosed ==
    [][ /\ \A k \in DOMAIN conn :
              conn[k].state = "closed" => conn'[k].state = "closed"
        /\ (dataChannel # Null /\ dataChannel' = dataChannel
              /\ readyState \in {"closing", "closed"})
           => readyState' # "open"
        /\ dataChannel' # Null
           => conn'[dataChannel'].state \notin {"none", "closed"} ]_vars

\* After a disconnect() that closed a connection the manager is connected
\* again, on the channel of another connection.
C17_Witness ==
    \E k \in DOMAIN conn :
       conn[k].state = "closed" /\ isConnected /\ dataChannel # k

\* C17 as stated: once disconnect() has been called the manager is never
\* Open again.
C17_NeverOpenAfterDisconnect == epoch > 0 => ~isConnected

\* C18: a handleOffer or handleAnswer call that is handed a malformed peer
\* public key never returns normally, and no step of it stores a shared
\* key, switches encryption on, makes a connection or applies a description.
C18_MalformedKeyIsFatal ==
    [][ (hs'.op \in {"handleOffer", "handleAnswer"} /\ ~CanImport(hs'.peerKey)
           /\ hs' # hs)
        => /\ hs'.pc # "done"
           /\ UNCHANGED <<sharedKey, isEncrypted, conn>> ]_vars

\* C19: the wait for ICE gathering always ends: a createOffer or handleOffer
\* call that is waiting goes on to return its blobs (or to reject, where
\* disconnect() has dropped the connection meanwhile), whether or not gathering
\* ever reports 'complete'; and the wait resolves at most once: the timer
\* firing after the wait has resolved changes nothing but itself.
C19_IceWaitEnds ==
    /\ (hs.pc = "ice")
          ~> (hs.pc = "done" \/ (hs.pc = "rejected" /\ peerConnection = Null))
    /\ [][ (hs.timer /\ ~hs'.timer /\ hs.pc # "ice" /\ hs'.n = hs.n)
           => (hs'.pc = hs.pc /\ hs'.op = hs.op
               /\ UNCHANGED <<peerConnection, conn, keyPair, dataChannel, readyState,
                              sharedKey, isEncrypted>>) ]_vars

\* A call has returned its blobs and its timer, which the code never clears,
\* has fired.
C19_Witness == hs.op \in {"createOffer", "handleOffer"} /\ hs.pc = "done" /\ ~hs.timer

\* C20: a sendFile call suspended in the buffer wait when disconnect() has
\* dropped the channel goes on to reject, and once the channel is dropped
\* nothing more is sent.
C20_DisconnectUnblocksSender ==
    /\ \A c \in 1..MaxCalls :
          (tx[c].pc = "bufferWait" /\ dataChannel = Null) ~> (tx[c].pc = "rejected")
    /\ [][ dataChannel = Null => sent' = sent ]_vars

\* A call that was waiting for the buffer has been rejected by the poll that
\* followed disconnect().
C20_Witness ==
    \E c \in 1..MaxCalls :
       /\ tx[c].pc = "rejected" /\ tx[c].error = TypeError /\ tx[c].waited
       /\ epoch > 0 /\ dataChannel = Null

\* ------------------------------------------------------------ progress claims
\* The events sendFile call c has emitted.
SendEvents(c) == fileEvents["tx"][randomUUID(c)]
\* Bytes of the file that the first k chunk frames sent under id carried.
RECURSIVE SentBytes(_, _)
SentBytes(id, k) ==
    IF k = 0 THEN 0 ELSE ByteLength(SentChunks(id)[k]) + SentBytes(id, k - 1)

\* C21: the events of a sendFile call are one 'transferring' event per chunk
\* frame sent, the k-th carrying min(100, round(bytes sent / size * 100)),
\* non-decreasing, the last of them 100; a call that has returned has emitted
\* after them exactly one 'completed' event, with 100, and has sent
\* file-complete; no other call has a 'completed' event.
C21_SendProgress ==
    \A c \in 1..MaxCalls :
       LET id == randomUUID(c)
           evs == SendEvents(c)
           n == Len(SentFrames(id))
           done == tx[c].pc = "done"
       IN /\ Len(evs) = n + (IF done THEN 1 ELSE 0)
          /\ \A k \in 1..n :
                /\ evs[k].status = "transferring"
                /\ evs[k].progress =
                      Min(100, RoundPercent(SentBytes(id, k), tx[c].size))
                /\ k < n => evs[k].progress <= evs[k + 1].progress
          /\ done => /\ evs[n + 1].status = "completed"
                     /\ evs[n + 1].progress = 100
                     /\ n > 0 => evs[n].progress = 100
                     /\ n = Ceil(tx[c].size, CHUNK_SIZE)
                     /\ \E i \in 1..Len(sent) : sent[i] = CompleteMsg(id)

\* A call has returned after a file of several chunks whose first progress
\* event was below 100.
C21_Witness ==
    \E c \in 1..MaxCalls :
       /\ tx[c].pc = "done"
       /\ Len(SendEvents(c)) >= 3
       /\ SendEvents(c)[1].progress < 100
       /\ SendEvents(c)[Len(SendEvents(c)) - 1].progress = 100

\* Sum of the payload lengths of the chunks accumulated in a list.
RECURSIVE PayloadBytes(_)
PayloadBytes(chunks) ==
    IF chunks = <<>> THEN 0
    ELSE ByteLength(Head(chunks).data) + PayloadBytes(Tail(chunks))
\* p is Math.round(part / whole * 100): the integer nearest to the quotient,
\* halves going up; with whole = 0 the division gives NaN or Infinity.
IsRounded(p, part, whole) ==
    IF whole = 0 THEN p = (IF part = 0 THEN JS_NaN ELSE JS_Infinity)
    ELSE 2 * whole * p - whole <= 200 * part /\ 200 * part < 2 * whole * p + whole

\* C22: a step that appends a chunk to the list of an id appends one chunk,
\* and emits exactly one file event, for that id, 'transferring', whose
\* progress is round(bytes accumulated for the id / declared size * 100).
C22_ReceiveProgress ==
    [][ \A id \in DOMAIN receivedChunks :
           (id \in DOMAIN receivedChunks'
              /\ Len(receivedChunks'[id]) > Len(receivedChunks[id]))
           => LET old == fileEvents["rx"][id]
                  new == fileEvents'["rx"][id]
                  ev == new[Len(new)]
              IN /\ Len(receivedChunks'[id]) = Len(receivedChunks[id]) + 1
                 /\ new = Append(old, ev)
                 /\ \A other \in TransferIds \ {id} :
                       fileEvents'["rx"][other] = fileEvents["rx"][other]
                 /\ fileEvents'["tx"] = fileEvents["tx"]
                 /\ ev.status = "transferring"
                 /\ ev.id = id
                 /\ IsRounded(ev.progress, PayloadBytes(receivedChunks'[id]),
                              receivedMeta[id].size) ]_vars

\* Two chunks have been accumulated for an id and the event of the second
\* reports more than the event of the first.
C22_Witness ==
    \E id \in DOMAIN receivedChunks :
       LET evs == fileEvents["rx"][id] IN
       /\ Len(receivedChunks[id]) >= 2
       /\ lastRx.what = "appended" /\ lastRx.id = id
       /\ Len(evs) >= 3
       /\ evs[Len(evs)].progress > evs[Len(evs) - 1].progress
       /\ evs[Len(evs) - 1].progress > 0

\* Every event emitFile has delivered, either direction, any id.
AllFileEvents ==
    UNION { { fileEvents[side][id][i] : i \in 1..Len(fileEvents[side][id]) } :
            side \in {"tx", "rx"}, id \in TransferIds }

\* C23: every FileTransfer event handed to the file subscribers carries a
\* progress within 0..100.
C23_ProgressInRange == \A ev \in AllFileEvents : ev.progress \in 0..100

\* ------------------------------------------------------------ map claims
\* The receiver fed by a peer that sends file-meta, file-complete and
\* encrypted chunk frames, where the application may call disconnect().
MapAlphabet(n) ==
    { InjectedMeta(id, prot) : id \in InjectIds(n), prot \in Protections }
    \cup { InjectedChunk(id, "k1", n) : id \in InjectIds(n) }
    \cup { CompleteMsg(id) : id \in InjectIds(n) }

NextRecvDisconnect ==
    \/ \E m \in MapAlphabet(injected) : Inject(m)
    \/ Deliver
    \/ \E i \in 1..MaxInject : RxDecName(i)
    \/ \E i \in 1..MaxInject : RxDecType(i)
    \/ \E i \in 1..MaxInject : RxDecChunk(i)
    \/ disconnect

SpecRecvDisconnect == Init /\ [][NextRecvDisconnect]_vars

\* C24: the two accumulation maps hold the same transfer ids in every state:
\* an id enters both or neither, leaves both or neither, and a disconnect()
\* leaves both maps empty.
C24_SameIds ==
    /\ [](DOMAIN receivedChunks = DOMAIN receivedMeta)
    /\ [][ epoch' # epoch => (receivedChunks' = <<>> /\ receivedMeta' = <<>>) ]_vars

\* Both maps are empty after a disconnect(): transfer 1 had been completed
\* and removed by its file-complete, transfer 2 had been registered and was
\* removed by the disconnect().
C24_Witness ==
    /\ epoch > 0
    /\ receivedChunks = <<>> /\ receivedMeta = <<>>
    /\ Len(Completed(1)) = 1
    /\ fileEvents["rx"][2] # <<>> /\ Completed(2) = <<>>

\* The 'completed' events the receiver has emitted for id after the step.
CompletedAfter(id) ==
    SelectSeq(fileEvents'["rx"][id], LAMBDA ev : ev.status = "completed")
\* Transfer id has been completed and is in neither map.
Finished(id) ==
    /\ Completed(id) # <<>>
    /\ id \notin DOMAIN receivedMeta
    /\ id \notin DOMAIN receivedChunks

\* C25: the step that emits 'completed' for an id emits one, for an id that
\* was known, and leaves the id in neither map; only the file-meta branch
\* makes an id known again; and while a completed id is unknown, a
\* file-complete or a chunk frame for it, at its dispatch and at its lookup,
\* changes neither map and hands no subscriber anything.  So between two
\* 'completed' events of an id there is a file-meta of that id.
C25_CompletedIdIsUnknown ==
    [][ \A id \in TransferIds :
          /\ Len(CompletedAfter(id)) > Len(Completed(id))
                => /\ Len(CompletedAfter(id)) = Len(Completed(id)) + 1
                   /\ id \in DOMAIN receivedMeta
                   /\ id \notin DOMAIN receivedMeta'
                   /\ id \notin DOMAIN receivedChunks'
          /\ (id \notin DOMAIN receivedMeta /\ id \in DOMAIN receivedMeta')
                => (lastRx'.what = "registered" /\ lastRx'.id = id)
          /\ Finished(id)
                => /\ \A m \in {Head(w) : w \in {wire} \ {<<>>}} :
                         (Dispatched(m) /\ m.id = id
                            /\ m.type \in {"file-complete", "binary"})
                         => (AccumulationUnchanged /\ UNCHANGED msgEvents)
                   /\ \A i \in 1..Len(rx) :
                         (Settles(i) /\ rx[i].pc = "decChunk" /\ rx[i].msg.id = id)
                         => (AccumulationUnchanged /\ UNCHANGED msgEvents) ]_vars

\* A second file-complete for an id that had been completed has been dropped.
C25_Witness ==
    \E id \in TransferIds :
       /\ Len(Completed(id)) = 1
       /\ lastRx.what = "unknown-complete" /\ lastRx.id = id
       /\ id \notin DOMAIN receivedMeta

\* ------------------------------------------------------------ dispatch claims
\* C26: the dispatch of a text message that is neither file-meta nor
\* file-complete hands it, as it is, to the generic subscribers once, hands
\* the file subscribers nothing, changes neither map and suspends nothing;
\* and the generic subscribers are handed nothing in any other step.
C26_OtherTextForwarded ==
    [][ /\ \A m \in {Head(w) : w \in {wire} \ {<<>>}} :
              (Dispatched(m) /\ IsText(m) /\ m.type \notin {"file-meta", "file-complete", "malformed"})
              => /\ msgEvents' = Append(msgEvents, [message |-> m, to |-> messageHandlers])
                 /\ AccumulationUnchanged
                 /\ UNCHANGED <<rx, rxThrown>>
        /\ msgEvents' # msgEvents
              => \E m \in {Head(w) : w \in {wire} \ {<<>>}} :
                    /\ Dispatched(m)
                    /\ IsText(m) /\ m.type \notin {"file-meta", "file-complete", "malformed"} ]_vars

\* A message of another type has been forwarded while a transfer was in
\* progress.
C26_Witness ==
    /\ lastRx.what = "forwarded"
    /\ Len(msgEvents) = 1 /\ msgEvents[1].message = OtherMsg(0)
    /\ msgEvents[1].to # {}
    /\ receivedMeta # <<>>

\* ------------------------------------------------------- subscription claims
\* onMessage(handler): this.messageHandlers.add(handler).
onMessage(h) ==
    /\ messageHandlers' = messageHandlers \cup {h}
    /\ UNCHANGED <<handshakeVars, dataChannel, readyState, sharedKey, isEncrypted, rxVars, txVars,
                   fileEvents, wire, injected, fileHandlers>>
    /\ UNCHANGED codec

\* onFile(handler): this.fileHandlers.add(handler).
onFile(h) ==
    /\ fileHandlers' = fileHandlers \cup {h}
    /\ UNCHANGED <<handshakeVars, dataChannel, readyState, sharedKey, isEncrypted, rxVars, txVars,
                   fileEvents, wire, injected, messageHandlers>>
    /\ UNCHANGED codec

\* (mutant: the handle returned by onMessage clears the whole registry)
unsubMessageAll(h) ==
    /\ messageHandlers' = {}
    /\ UNCHANGED <<handshakeVars, dataChannel, readyState, sharedKey, isEncrypted, rxVars, txVars,
                   fileEvents, wire, injected, fileHandlers>>
    /\ UNCHANGED codec

\* The handle onMessage(handler) returned: this.messageHandlers.delete(handler).
unsubMessage(h) ==
    /\ messageHandlers' = messageHandlers \ {h}
    /\ UNCHANGED <<handshakeVars, dataChannel, readyState, sharedKey, isEncrypted, rxVars, txVars,
                   fileEvents, wire, injected, fileHandlers>>
    /\ UNCHANGED codec

\* The handle onFile(handler) returned: this.fileHandlers.delete(handler).
unsubFile(h) ==
    /\ fileHandlers' = fileHandlers \ {h}
    /\ UNCHANGED <<handshakeVars, dataChannel, readyState, sharedKey, isEncrypted, rxVars, txVars,
                   fileEvents, wire, injected, messageHandlers>>
    /\ UNCHANGED codec

\* The receiver fed by a peer that sends a control message and a file-meta,
\* while the application subscribes and unsubscribes handlers.
SubscribeAlphabet == {OtherMsg(0), InjectedMeta(1, "plain")}

NextSubscribe ==
    \/ \E m \in SubscribeAlphabet : injected < MaxSubscribeInject /\ Inject(m)
    \/ Deliver
    \/ \E h \in 1..MaxHandlers : onMessage(h)
    \/ \E h \in 1..MaxHandlers : onFile(h)
    \/ \E h \in 1..MaxHandlers : unsubMessage(h)
    \/ \E h \in 1..MaxHandlers : unsubFile(h)

\* An established session without a key, with one handler on each channel.
InitSubscribe == Init /\ sharedKey = NoKey

SpecSubscribe == InitSubscribe /\ [][NextSubscribe]_vars

\* The events a step hands out on each channel.
NewMessageEvents(log, log2) == {log2[i] : i \in (Len(log) + 1)..Len(log2)}
NewFileEvents(log, log2) ==
    UNION {NewMessageEvents(log[side][id], log2[side][id]) :
              side \in DOMAIN log, id \in TransferIds}

\* C27: every event a step hands out on a channel goes to exactly the handlers
\* subscribed to that channel when the step is taken, in that same step; a
\* step that takes a handler off a channel takes off that handler only, and
\* leaves both the other handlers of the channel and the other channel alone.
C27_Subscriptions ==
    [][ /\ \A e \in NewMessageEvents(msgEvents, msgEvents') : e.to = messageHandlers
        /\ \A e \in NewFileEvents(fileEvents, fileEvents') : e.to = fileHandlers
        /\ \A h \in messageHandlers \ messageHandlers' :
              /\ messageHandlers' = messageHandlers \ {h}
              /\ fileHandlers' = fileHandlers
        /\ \A h \in fileHandlers \ fileHandlers' :
              /\ fileHandlers' = fileHandlers \ {h}
              /\ messageHandlers' = messageHandlers ]_vars

\* Handlers 1 and 2 both received a first control message; handler 1 was then
\* unsubscribed and the second message went to handler 2 alone, while handler
\* 1 is still the subscriber of the file channel.
C27_Witness ==
    /\ Len(msgEvents) = 2
    /\ msgEvents[1].to = {1, 2}
    /\ msgEvents[2].to = {2}
    /\ messageHandlers = {2}
    /\ fileHandlers = {1}

\* ------------------------------------------------------- confidentiality claims
\* The messages a step hands to send().
NewlySent(log, log2) == {log2[i] : i \in (Len(log) + 1)..Len(log2)}
\* Nothing of the file's name, type or content is readable in m: a file-meta
\* says encrypted and carries both strings encrypted, a chunk frame carries
\* an IV and ciphertext.
Protected(m) ==
    CASE m.type = "file-meta" ->
            m.encrypted /\ m.name.key # Plain /\ m.fileType.key # Plain
      [] m.type = "binary" ->
            m.body.key # Plain
            /\ ByteLength(m.body) = (m.body.hi - m.body.lo) + IV_LENGTH + TAG_LENGTH
      [] OTHER -> TRUE

\* C28: whatever sendFile puts on the channel while a shared key exists is
\* protected, and so is every message of a call that began under a key, also
\* when disconnect() is called while the call is in progress.
C28_NoPlaintextWhenKeyed ==
    /\ [][ sharedKey # NoKey => \A m \in NewlySent(sent, sent') : Protected(m) ]_vars
    /\ [](\A i \in 1..Len(sent) : tx[sent[i].id].encrypted => Protected(sent[i]))

\* A call that began under a key sent its encrypted file-meta; disconnect()
\* was called while it read the file, the call then built its first packet
\* unencrypted and was rejected before sending it.
C28_Witness ==
    /\ epoch > 0
    /\ tx[1].encrypted
    /\ tx[1].pc = "rejected" /\ tx[1].error = TypeError
    /\ tx[1].pkt.body.key = Plain /\ tx[1].pkt.body.hi > tx[1].pkt.body.lo
    /\ Len(sent) = 1 /\ sent[1].type = "file-meta" /\ Protected(sent[1])

\* ------------------------------------------------------- calibration claims
\* The text message { type: 'calibration-ping', id, size } of a peer that
\* probes the channel, and the echo it waits for.
PingMsg(id, size) == [OtherMsg(id) EXCEPT !.type = "calibration-ping", !.size = size]
PongMsg(id, size) == [OtherMsg(id) EXCEPT !.type = "calibration-pong", !.size = size]

\* The receiver fed by a peer that probes with two sizes and also sends an
\* application message.
CalibrationAlphabet ==
    { PingMsg(id, size) : id \in {1, 2}, size \in {CHUNK_SIZE, 2 * CHUNK_SIZE} }
    \cup { OtherMsg(0) }

NextCalibration ==
    \/ \E m \in CalibrationAlphabet : Inject(m)
    \/ Deliver

SpecCalibration == Init /\ [][NextCalibration]_vars

\* C29: the step that dispatches a calibration-ping sends the
\* calibration-pong of the same id and size on the channel.
C29_PingEchoed ==
    [][ \A m \in {Head(w) : w \in {wire} \ {<<>>}} :
           (Dispatched(m) /\ m.type = "calibration-ping")
           => sent' = Append(sent, PongMsg(m.id, m.size)) ]_vars

\* The sender whose peer answers the probes of 16 KiB and 32 KiB and never
\* the probe of 64 KiB.
PongAlphabet == { PongMsg(1, CHUNK_SIZE), PongMsg(2, 2 * CHUNK_SIZE) }

NextCalibratedSend ==
    \/ \E m \in PongAlphabet : Inject(m)
    \/ Deliver
    \/ \E size \in FileSizes : sendFile(1, size)
    \/ TxEncName(1)
    \/ TxEncType(1)
    \/ TxRead(1)
    \/ TxEncChunk(1)

SpecCalibratedSend == Init /\ [][NextCalibratedSend]_vars

\* The peer's answers to the 16 KiB and 32 KiB probes have been handled.
Answered(size) ==
    \E i \in 1..Len(msgEvents) :
        /\ msgEvents[i].message.type = "calibration-pong"
        /\ msgEvents[i].message.size = size

\* C30: the manager sends its probes in ascending order of size and none
\* above the first one left unanswered, and a file sent after the probes of
\* 16 KiB and 32 KiB were answered, the one of 64 KiB not, goes out in
\* chunks of 32 KiB.
C30_CalibratedChunkSize ==
    /\ [][ \A m \in NewlySent(sent, sent') :
              m.type = "calibration-ping"
              => /\ m.size <= 4 * CHUNK_SIZE
                 /\ \A i \in 1..Len(sent) :
                       sent[i].type = "calibration-ping" => sent[i].size < m.size ]_vars
    /\ [][ (Answered(CHUNK_SIZE) /\ Answered(2 * CHUNK_SIZE))
           => \A m \in NewlySent(sent, sent') :
                 m.type = "binary"
                 => m.body.hi - m.body.lo
                      = Min(2 * CHUNK_SIZE, tx[m.id].size - m.body.lo) ]_vars

\* ------------------------------------------------------------ codec claims
\* The functions of crypto.ts over concrete values: a byte is 0..255, a
\* buffer a sequence of bytes, a string a sequence of UTF-16 code units, a
\* base64 text a sequence of 6-bit digits with Pad for '='.
managerVars == <<sessionVars, rxVars, txVars, fileEvents, wire, injected, handlerVars>>

RECURSIVE Pow(_, _)
Pow(a, n) == IF n = 0 THEN 1 ELSE a * Pow(a, n - 1)
RECURSIVE Sum(_)
Sum(seq) == IF seq = <<>> THEN 0 ELSE Head(seq) + Sum(Tail(seq))
RECURSIVE Flatten(_)
Flatten(seqs) ==
    IF seqs = <<>> THEN <<>>
    ELSE IF Len(seqs) = 1 THEN seqs[1]
    ELSE LET half == Len(seqs) \div 2
         IN Flatten(SubSeq(seqs, 1, half)) \o Flatten(SubSeq(seqs, half + 1, Len(seqs)))
\* array.slice(from): the elements after the first from.
SliceFrom(seq, from) == SubSeq(seq, Min(from, Len(seq)) + 1, Len(seq))
\* array.slice(0, to)
SliceTo(seq, to) == SubSeq(seq, 1, Min(to, Len(seq)))

\* ECDH: the key agreement of crypto.subtle, as Diffie-Hellman in the
\* multiplicative group modulo CurveModulus with generator CurveBase.
CurveModulus == 23
CurveBase == 5
\* generateKeyPair(): the private keys a peer may draw, and the public key
\* that goes with each.
PrivateKeys == 1..MaxPrivate
PublicKey(privateKey) == Pow(CurveBase, privateKey) % CurveModulus
\* deriveSharedKey(privateKey, peerPublicKey): the AES-GCM key.
DeriveSharedKey(privateKey, peerPublicKey) == Pow(peerPublicKey, privateKey) % CurveModulus

\* AES-GCM of crypto.subtle: a keystream added bytewise, and a tag of
\* TAG_LENGTH bytes over key, iv and plaintext appended to the ciphertext.
KeyStream(key, iv, i) == (7 * key + Sum(iv) + i) % 256
GcmTag(key, iv, data) == [i \in 1..TAG_LENGTH |-> (key + Sum(iv) + 3 * Sum(data) + i) % 256]
SubtleEncrypt(key, iv, data) ==
    [i \in 1..Len(data) |-> (data[i] + KeyStream(key, iv, i)) % 256] \o GcmTag(key, iv, data)
SubtlePlain(key, iv, encrypted) ==
    [i \in 1..(Len(encrypted) - TAG_LENGTH) |->
        (encrypted[i] + 256 - KeyStream(key, iv, i)) % 256]
\* crypto.subtle.decrypt resolves iff the tag verifies.
SubtleVerifies(key, iv, encrypted) ==
    /\ Len(iv) = IV_LENGTH
    /\ Len(encrypted) >= TAG_LENGTH
    /\ SliceFrom(encrypted, Len(encrypted) - TAG_LENGTH)
          = GcmTag(key, iv, SubtlePlain(key, iv, encrypted))

\* encryptData(key, data), iv being what crypto.getRandomValues drew.
EncryptData(key, iv, data) == [iv |-> iv, encrypted |-> SubtleEncrypt(key, iv, data)]
\* decryptData(key, iv, encrypted): resolves iff CanDecryptData.
CanDecryptData(key, iv, encrypted) == SubtleVerifies(key, iv, encrypted)
DecryptData(key, iv, encrypted) == SubtlePlain(key, iv, encrypted)

\* new TextEncoder().encode(text): UTF-8, a surrogate pair as one code point
\* and a lone surrogate as U+FFFD.
IsHigh(u) == u \in 55296..56319
IsLow(u) == u \in 56320..57343
Utf8(cp) ==
    IF cp < 128 THEN <<cp>>
    ELSE IF cp < 2048 THEN <<192 + (cp \div 64), 128 + (cp % 64)>>
    ELSE IF cp < 65536
    THEN <<224 + (cp \div 4096), 128 + ((cp \div 64) % 64), 128 + (cp % 64)>>
    ELSE <<240 + (cp \div 262144), 128 + ((cp \div 4096) % 64),
           128 + ((cp \div 64) % 64), 128 + (cp % 64)>>
\* What the code unit at place i contributes: a high surrogate with the low
\* one after it their code point, that low one nothing more.
EncodeAt(text, i) ==
    IF IsHigh(text[i]) /\ i < Len(text) /\ IsLow(text[i + 1])
    THEN Utf8(65536 + (text[i] - 55296) * 1024 + (text[i + 1] - 56320))
    ELSE IF IsLow(text[i]) /\ i > 1 /\ IsHigh(text[i - 1]) THEN <<>>
    ELSE IF IsHigh(text[i]) \/ IsLow(text[i]) THEN Utf8(65533)
    ELSE Utf8(text[i])
TextEncode(text) == Flatten([i \in 1..Len(text) |-> EncodeAt(text, i)])

\* new TextDecoder().decode(bytes): UTF-8 to code points, a byte that starts
\* no sequence as U+FFFD; the decoder's ignoreBOM is false, so a leading
\* U+FEFF is taken as the byte order mark and left out of the result.
IsCont(bytes, i) == i \in 1..Len(bytes) /\ bytes[i] \in 128..191
\* The number of bytes of the sequence that starts at place i, 0 if none does.
SequenceAt(bytes, i) ==
    IF i < 1 THEN 0
    ELSE IF bytes[i] < 128 THEN 1
    ELSE IF bytes[i] \in 192..223 /\ IsCont(bytes, i + 1) THEN 2
    ELSE IF bytes[i] \in 224..239 /\ IsCont(bytes, i + 1) /\ IsCont(bytes, i + 2) THEN 3
    ELSE IF bytes[i] \in 240..247 /\ IsCont(bytes, i + 1) /\ IsCont(bytes, i + 2)
            /\ IsCont(bytes, i + 3) THEN 4
    ELSE 0
\* What the byte at place i contributes: the code point of the sequence it
\* starts, nothing if it continues a sequence, U+FFFD otherwise.
DecodeAt(bytes, i) ==
    LET n == SequenceAt(bytes, i) IN
    IF n = 1 THEN <<bytes[i]>>
    ELSE IF n = 2 THEN <<(bytes[i] - 192) * 64 + (bytes[i + 1] - 128)>>
    ELSE IF n = 3 THEN <<(bytes[i] - 224) * 4096 + (bytes[i + 1] - 128) * 64
                         + (bytes[i + 2] - 128)>>
    ELSE IF n = 4 THEN <<(bytes[i] - 240) * 262144 + (bytes[i + 1] - 128) * 4096
                         + (bytes[i + 2] - 128) * 64 + (bytes[i + 3] - 128)>>
    ELSE IF \E k \in 1..3 : SequenceAt(bytes, i - k) > k THEN <<>>
    ELSE <<65533>>
DecodePoints(bytes) == Flatten([i \in 1..Len(bytes) |-> DecodeAt(bytes, i)])
ToUnits(cp) ==
    IF cp >= 65536
    THEN <<55296 + ((cp - 65536) \div 1024), 56320 + ((cp - 65536) % 1024)>>
    ELSE <<cp>>
ByteOrderMark == 65279
TextDecode(bytes) ==
    LET points == DecodePoints(bytes)
        kept == IF points # <<>> /\ points[1] = ByteOrderMark THEN Tail(points)
                ELSE points
    IN Flatten([i \in 1..Len(kept) |-> ToUnits(kept[i])])

\* btoa(String.fromCharCode(...bytes)): three bytes to four digits.
Pad == 64
RECURSIVE Btoa(_)
Btoa(bytes) ==
    IF bytes = <<>> THEN <<>>
    ELSE IF Len(bytes) = 1
    THEN <<bytes[1] \div 4, (bytes[1] % 4) * 16, Pad, Pad>>
    ELSE IF Len(bytes) = 2
    THEN <<bytes[1] \div 4, (bytes[1] % 4) * 16 + (bytes[2] \div 16),
           (bytes[2] % 16) * 4, Pad>>
    ELSE <<bytes[1] \div 4, (bytes[1] % 4) * 16 + (bytes[2] \div 16),
           (bytes[2] % 16) * 4 + (bytes[3] \div 64), bytes[3] % 64>>
         \o Btoa(SliceFrom(bytes, 3))
\* atob(encoded).split('').map(c => c.charCodeAt(0)): four digits to three
\* bytes, fewer where the group is padded.
RECURSIVE Atob(_)
Atob(digits) ==
    IF Len(digits) < 4 THEN <<>>
    ELSE LET d == digits
             b1 == d[1] * 4 + (d[2] \div 16)
             b2 == (d[2] % 16) * 16 + (d[3] \div 4)
             b3 == (d[3] % 4) * 64 + d[4]
         IN (IF d[3] = Pad THEN <<b1>>
             ELSE IF d[4] = Pad THEN <<b1, b2>>
             ELSE <<b1, b2, b3>>) \o Atob(SliceFrom(digits, 4))

\* encryptString(key, text)
EncryptString(key, iv, text) ==
    LET sealed == EncryptData(key, iv, TextEncode(text))
    IN Btoa(sealed.iv \o sealed.encrypted)
\* decryptString(key, encoded): resolves iff CanDecryptString.
CanDecryptString(key, encoded) ==
    CanDecryptData(key, SliceTo(Atob(encoded), IV_LENGTH), SliceFrom(Atob(encoded), IV_LENGTH))
DecryptString(key, encoded) ==
    TextDecode(DecryptData(key, SliceTo(Atob(encoded), IV_LENGTH),
                           SliceFrom(Atob(encoded), IV_LENGTH)))

\* Buffers, strings and IVs the two peers are given.  The strings are made of
\* 'a', U+00E9, U+FEFF and the two halves of U+1F600.
ByteSamples == {0, 65, 255}
UnitSamples == {97, 233, ByteOrderMark, 55357, 56832}
Buffers == UNION { [1..k -> ByteSamples] : k \in 0..MaxLen }
Strings == UNION { [1..k -> UnitSamples] : k \in 0..MaxLen }
IVs == { [i \in 1..IV_LENGTH |-> v] : v \in {0, 255} }

\* Peer A and peer B have each drawn a key pair and hold the other's public
\* key; A is given a buffer or a string for B.
CodecInputs ==
    { [stage |-> "input", kind |-> "data", privA |-> a, privB |-> b, data |-> d]
        : a \in PrivateKeys, b \in PrivateKeys, d \in Buffers }
    \cup
    { [stage |-> "input", kind |-> "string", privA |-> a, privB |-> b, text |-> t]
        : a \in PrivateKeys, b \in PrivateKeys, t \in Strings }

\* Each peer's deriveSharedKey settles.
CodecDerive ==
    /\ codec.stage = "input"
    /\ codec' = [kA |-> DeriveSharedKey(codec.privA, PublicKey(codec.privB)),
                 kB |-> DeriveSharedKey(codec.privB, PublicKey(codec.privA))]
                @@ [codec EXCEPT !.stage = "derived"]
    /\ UNCHANGED managerVars

\* A's encryptData or encryptString settles.
CodecEncrypt ==
    /\ codec.stage = "derived"
    /\ \E iv \in IVs :
          codec' = (IF codec.kind = "data"
                    THEN [sealed |-> EncryptData(codec.kA, iv, codec.data)]
                    ELSE [iv |-> iv, encoded |-> EncryptString(codec.kA, iv, codec.text)])
                   @@ [codec EXCEPT !.stage = "encrypted"]
    /\ UNCHANGED managerVars

\* B's decryptData or decryptString settles: it resolves with the plaintext
\* or rejects.
CodecDecrypt ==
    /\ codec.stage = "encrypted"
    /\ codec' = (IF codec.kind = "data"
                 THEN IF CanDecryptData(codec.kB, codec.sealed.iv, codec.sealed.encrypted)
                      THEN [ok |-> TRUE,
                            out |-> DecryptData(codec.kB, codec.sealed.iv,
                                                codec.sealed.encrypted)]
                      ELSE [ok |-> FALSE]
                 ELSE IF CanDecryptString(codec.kB, codec.encoded)
                      THEN [ok |-> TRUE, out |-> DecryptString(codec.kB, codec.encoded)]
                      ELSE [ok |-> FALSE])
                @@ [codec EXCEPT !.stage = "decrypted"]
    /\ UNCHANGED managerVars

InitCodec == Established /\ sharedKey = NoKey /\ bufferedAmount = 0 /\ codec \in CodecInputs

NextCodec ==
    \/ CodecDerive
    \/ CodecEncrypt
    \/ CodecDecrypt

SpecCodec == InitCodec /\ [][NextCodec]_vars

\* C31: what B decrypts with its key is what A encrypted with its own: the
\* buffer for encryptData / decryptData, the string for encryptString /
\* decryptString, and the encoded string is the base64 of the 12 bytes of
\* the IV followed by the ciphertext.
C31_RoundTrip ==
    /\ codec.stage = "encrypted" /\ codec.kind = "string"
       => /\ SliceTo(Atob(codec.encoded), IV_LENGTH) = codec.iv
          /\ Len(Atob(codec.encoded))
               = IV_LENGTH + Len(TextEncode(codec.text)) + TAG_LENGTH
          /\ Len(codec.encoded) % 4 = 0
    /\ codec.stage = "decrypted"
       => /\ codec.ok
          /\ codec.kind = "data" => codec.out = codec.data
          /\ codec.kind = "string" => codec.out = codec.text

\* ------------------------------------------------------------ frame claims
\* The packet code of sendFile and of handleIncomingMessage over concrete
\* bytes.  packet[0] = idBytes.length stores the length modulo 256.
MaxIdBytes == 255
Packet0(id) == Len(TextEncode(id)) % (MaxIdBytes + 1)
\* sendFile: idLength(1) + id + iv(12) + encrypted, or idLength(1) + id + chunk.
EncryptedPacket(id, sealed) == <<Packet0(id)>> \o TextEncode(id) \o sealed.iv \o sealed.encrypted
PlainPacket(id, chunk) == <<Packet0(id)>> \o TextEncode(id) \o chunk

\* handleIncomingMessage, binary branch.  view.getUint8(0) and the
\* Uint8Array views throw a RangeError where the buffer is too short.
CanReadId(data) == Len(data) >= 1 /\ 1 + data[1] <= Len(data)
FrameId(data) == TextDecode(SubSeq(data, 2, 1 + data[1]))
CanReadIv(data) == 1 + data[1] + IV_LENGTH <= Len(data)
FrameIv(data) == SubSeq(data, 2 + data[1], 1 + data[1] + IV_LENGTH)
FrameEncrypted(data) == SliceFrom(data, 1 + data[1] + IV_LENGTH)
\* (mutant: the chunk view starts at the id length, forgetting the length byte)
FramePlainFromId(data) == SliceFrom(data, data[1])
FramePlain(data) == SliceFrom(data, 1 + data[1])
\* What the branch has when it reaches the lookup: the id and the chunk, or
\* nothing because it threw or because the decryption failed and it returned.
Unpacked(keyed, key, data) ==
    IF ~CanReadId(data) THEN [result |-> "thrown"]
    ELSE IF ~keyed THEN [result |-> "chunk", outId |-> FrameId(data), chunk |-> FramePlain(data)]
    ELSE IF ~CanReadIv(data) THEN [result |-> "thrown"]
    ELSE IF ~CanDecryptData(key, FrameIv(data), FrameEncrypted(data))
    THEN [result |-> "returned"]
    ELSE [result |-> "chunk", outId |-> FrameId(data),
          chunk |-> DecryptData(key, FrameIv(data), FrameEncrypted(data))]

\* The ids: short strings, and the longest id whose length fits the first byte.
LongId == [i \in 1..MaxIdBytes |-> 97]
FrameIds == Strings \cup {LongId}
\* A session, keyed or not, in which one peer sends payload data under id.
FrameInputs ==
    { [stage |-> "input", kind |-> "frame", keyed |-> k,
       key |-> DeriveSharedKey(a, PublicKey(b)), id |-> id, data |-> d]
        : k \in BOOLEAN, a \in PrivateKeys, b \in {1}, id \in FrameIds, d \in Buffers }

\* sendFile builds the packet, after encryptData where the session is keyed.
FramePack ==
    /\ codec.stage = "input"
    /\ \E iv \in IVs :
          codec' = [packet |-> IF codec.keyed
                               THEN EncryptedPacket(codec.id,
                                        EncryptData(codec.key, iv, codec.data))
                               ELSE PlainPacket(codec.id, codec.data)]
                   @@ [codec EXCEPT !.stage = "packed"]
    /\ UNCHANGED managerVars

\* The peer's handleIncomingMessage takes the packet up to the lookup.
FrameUnpack ==
    /\ codec.stage = "packed"
    /\ codec' = Unpacked(codec.keyed, codec.key, codec.packet)
                @@ [codec EXCEPT !.stage = "unpacked"]
    /\ UNCHANGED managerVars

InitFrame == Established /\ sharedKey = NoKey /\ bufferedAmount = 0 /\ codec \in FrameInputs

NextFrame ==
    \/ FramePack
    \/ FrameUnpack

SpecFrame == InitFrame /\ [][NextFrame]_vars

\* The string has a UTF-8 form: every surrogate in it is half of a pair.
HasUtf8(text) ==
    \A i \in 1..Len(text) :
        /\ IsHigh(text[i]) => i < Len(text) /\ IsLow(text[i + 1])
        /\ IsLow(text[i]) => i > 1 /\ IsHigh(text[i - 1])

\* C32: for an id of 0 to 255 UTF-8 bytes, the receive path decodes the frame
\* the send path built to the same id and to a chunk equal to the payload,
\* keyed or not.
C32_FrameRoundTrip ==
    (codec.stage = "unpacked" /\ HasUtf8(codec.id) /\ Len(TextEncode(codec.id)) <= MaxIdBytes)
    => /\ codec.result = "chunk"
       /\ codec.outId = codec.id
       /\ codec.chunk = codec.data

\* C32 as amended: the same for every such id that does not begin with
\* U+FEFF.
C32_FrameRoundTripNoMark ==
    (/\ codec.stage = "unpacked"
     /\ HasUtf8(codec.id) /\ Len(TextEncode(codec.id)) <= MaxIdBytes
     /\ (codec.id = <<>> \/ codec.id[1] # ByteOrderMark))
    => /\ codec.result = "chunk"
       /\ codec.outId = codec.id
       /\ codec.chunk = codec.data

\* A keyed frame with the longest id, whose length byte is 255, and a payload
\* of MaxLen bytes came back as sent.
C32_Witness ==
    /\ codec.stage = "unpacked"
    /\ codec.result = "chunk" /\ codec.outId = codec.id /\ codec.chunk = codec.data
    /\ Len(codec.data) = MaxLen
    /\ codec.keyed /\ codec.id = LongId /\ codec.packet[1] = MaxIdBytes

\* ------------------------------------------------------------ short frames
\* What a peer can put on the channel as a binary message: the packets of
\* sendFile, whole or cut short anywhere, down to the empty message.
Prefixes(packet) == { SliceTo(packet, n) : n \in 0..Len(packet) }
InboundIds == { <<>>, <<97, 233>> }
InboundPackets(a) ==
    { PlainPacket(id, d) : id \in InboundIds, d \in Buffers }
    \cup { EncryptedPacket(id, EncryptData(DeriveSharedKey(a, PublicKey(1)), iv, d))
             : id \in InboundIds, d \in Buffers, iv \in IVs }
InboundInputs ==
    { [stage |-> "inbound", kind |-> "frame", keyed |-> k,
       key |-> DeriveSharedKey(1, PublicKey(a)), packet |-> f]
        : k \in BOOLEAN, a \in PrivateKeys,
          f \in UNION { Prefixes(p) : p \in UNION { InboundPackets(b) : b \in PrivateKeys } } }

\* handleIncomingMessage takes the binary message up to the lookup.
FrameReceive ==
    /\ codec.stage = "inbound"
    /\ codec' = Unpacked(codec.keyed, codec.key, codec.packet)
                @@ [codec EXCEPT !.stage = "received"]
    /\ UNCHANGED managerVars

InitInbound == Established /\ sharedKey = NoKey /\ bufferedAmount = 0 /\ codec \in InboundInputs

NextInbound == FrameReceive

SpecInbound == InitInbound /\ [][NextInbound]_vars

\* C37: whatever the length of a binary message, down to the empty one, the
\* receive handler does not end by throwing.  (A handler that throws does so
\* before it reaches the maps.)
C37_ShortFramesHandled == codec.stage = "received" => codec.result # "thrown"

\* ------------------------------------------------------------ a transfer restarted
\* The peer restarts transfer 1: its file-meta, one chunk, its file-meta
\* again, and after that the completion.
RestartAlphabet(n) ==
    IF n = 0 \/ n = 2 THEN { InjectedMeta(1, prot) : prot \in Protections }
    ELSE IF n = 1 THEN { InjectedChunk(1, prot, n) : prot \in Protections }
    ELSE { CompleteMsg(1) }

NextRestart ==
    \/ \E m \in RestartAlphabet(injected) : Inject(m)
    \/ Deliver
    \/ \E i \in 1..MaxInject : RxDecName(i)
    \/ \E i \in 1..MaxInject : RxDecType(i)
    \/ \E i \in 1..MaxInject : RxDecChunk(i)

SpecRestart == Init /\ [][NextRestart]_vars

\* Both file-meta messages have been dispatched and have registered the id.
SecondMetaRegistered ==
    /\ injected >= 3
    /\ Len(wire) <= injected - 3
    /\ \A i \in 1..Len(rx) : rx[i].pc \notin {"decName", "decType"}
\* The chunk that was received between the two file-meta messages.
EarlyChunk(view) == view.data.src = 1 /\ view.data.lo = ChunkBytes

\* C38: once the second file-meta of an id in flight has registered it, the
\* chunks received before that file-meta are not in the id's list, and not
\* in the blob emitted for the id afterwards.
C38_RestartDropsEarlierChunks ==
    SecondMetaRegistered
    => /\ 1 \in DOMAIN receivedChunks
          => \A i \in 1..Len(receivedChunks[1]) : ~EarlyChunk(receivedChunks[1][i])
       /\ \A i \in 1..Len(Completed(1)) :
             \A j \in 1..Len(Completed(1)[i].data.parts) :
                ~EarlyChunk(Completed(1)[i].data.parts[j])

\* ------------------------------------------------------------ flag and key
\* C33: in every reachable state of a manager, through createOffer,
\* handleOffer, handleAnswer and disconnect in any interleaving, their
\* continuations after a disconnect included, isEncrypted is true exactly
\* when sharedKey is set.
C33_FlagIffKey == isEncrypted <=> sharedKey # NoKey

\* A handshake that was under way when disconnect() cleared the key derived
\* its key afterwards: the torn-down manager holds the key and the flag.
C33_Witness ==
    /\ epoch > 0
    /\ hs.epoch < epoch
    /\ hs.pc \in {"setRemote", "done", "rejected"}
    /\ isEncrypted
    /\ sharedKey # NoKey
    /\ peerConnection = Null

\* ------------------------------------------------------------ chunk behind encrypted metadata
\* C34: in a keyed session, when the handler of a chunk frame reaches its
\* lookup, and the encrypted file-meta of the same id arrived before that
\* frame, the lookup finds the id: the handler never ends with the chunk
\* dropped as one of an unknown id while that file-meta's handler is still
\* awaiting its decryptions.
C34_ChunkAfterMetaFindsEntries ==
    [][\A i \in 1..Len(rx) :
          (/\ rx[i].pc = "decChunk"
           /\ \E j \in 1..(i - 1) :
                 /\ rx[j].pc \in {"decName", "decType"}
                 /\ rx[j].msg.id = rx[i].msg.id
           /\ rx' = RemoveAt(rx, i))
          => lastRx'.what # "unknown-chunk"]_vars

\* ------------------------------------------------------------ sends that finish
\* The calls of sendFile on a channel that stays open: handleFilesSelected
\* awaits each sendFile before the next file, but it can be called again
\* while an earlier call is suspended, so the calls interleave.
NextSendOpen ==
    \/ \E c \in 1..MaxCalls, size \in FileSizes : sendFile(c, size)
    \/ \E c \in 1..MaxCalls : TxEncName(c)
    \/ \E c \in 1..MaxCalls : TxEncType(c)
    \/ \E c \in 1..MaxCalls : TxRead(c)
    \/ \E c \in 1..MaxCalls : TxEncChunk(c)
    \/ \E c \in 1..MaxCalls : TxPoll(c)
    \/ Drain

\* What call c is suspended in settles: an encryption, the file read, the
\* 10 ms timer of the buffer wait.
TxSettle(c) ==
    \/ TxEncName(c)
    \/ TxEncType(c)
    \/ TxRead(c)
    \/ TxEncChunk(c)
    \/ TxPoll(c)

\* ENABLED <<TxSettle(c)>>_vars on a channel that stays open: call c is at an
\* await, and a poll of the buffer wait changes the state only when it finds
\* the buffer at the limit or below.
CanSettle(c) ==
    IF tx[c].pc = "bufferWait" THEN ~BufferFull(bufferedAmount)
    ELSE tx[c].pc \in {"encName", "encType", "readFile", "encChunk"}
\* WF_vars(TxSettle(c)), with its ENABLED written out as CanSettle(c).
SettleFairness(c) == []<>(~CanSettle(c)) \/ []<><<TxSettle(c)>>_vars

\* Every pending promise settles, every timer fires, and the transport goes
\* on taking bytes out of a buffer that holds some.
SpecSendOpen ==
    /\ InitSender
    /\ [][NextSendOpen]_vars
    /\ \A c \in 1..MaxCalls : SettleFairness(c)
    /\ WF_vars(Drain)

\* C35: on a channel that stays open and whose buffer goes on draining, every
\* call of sendFile, alone or interleaved with others, ends resolved with
\* its file-complete sent and its 'completed' event emitted.
SendFinished(c) ==
    /\ tx[c].pc = "done"
    /\ \E i \in 1..Len(sent) : sent[i] = CompleteMsg(tx[c].id)
    /\ fileEvents["tx"][tx[c].id] # <<>>
    /\ fileEvents["tx"][tx[c].id][Len(fileEvents["tx"][tx[c].id])].status = "completed"
C35_EverySendFinishes ==
    \A c \in 1..MaxCalls : (tx[c].pc # "idle") ~> SendFinished(c)

\* Two calls ran interleaved, the first one waited for the buffer, and both
\* have finished.
C35_Witness ==
    /\ \A c \in 1..MaxCalls : SendFinished(c)
    /\ tx[1].waited
    /\ \E i, j, k \in 1..Len(sent) :
          /\ i < j /\ j < k
          /\ sent[i].id = tx[1].id /\ sent[j].id = tx[2].id /\ sent[k].id = tx[1].id

\* ------------------------------------------------------------ a send across sessions
\* One call of sendFile on an established session, while the application
\* may disconnect and set up the next session on the same manager, as
\* offerer or as answerer.
NextSendAcross ==
    \/ \E size \in FileSizes : sendFile(1, size)
    \/ TxEncName(1)
    \/ TxEncType(1)
    \/ TxRead(1)
    \/ TxEncChunk(1)
    \/ TxPoll(1)
    \/ Drain
    \/ disconnect
    \/ createOffer
    \/ \E peerKey \in PeerKeys : handleOffer(peerKey)
    \/ \E peerKey \in PeerKeys : handleAnswer(peerKey)
    \/ HsGenKey
    \/ HsExport
    \/ HsImport
    \/ HsDerive
    \/ HsSetRemote
    \/ HsDescribe
    \/ HsSetLocal
    \/ onStateChange
    \/ IceTimeout
    \/ ChannelOpen
    \/ ondatachannel

SpecSendAcross == InitSender /\ [][NextSendAcross]_vars

\* C36: whatever a call of sendFile sends after its file-meta, chunks and
\* file-complete, goes to the channel that carried the file-meta, also when
\* disconnect() and a new session came in between.
C36_OneChannelPerTransfer ==
    [][\A c \in 1..MaxCalls :
          (/\ tx[c].pc \in {"readFile", "encChunk", "bufferWait"}
           /\ \E i \in (Len(sent) + 1)..Len(sent') : sent'[i].id = tx[c].id)
          => dataChannel = tx[c].channel]_vars

\* ------------------------------------------------------------ transfer panel
\* handleFilesSelected: const tempId = crypto.randomUUID(), an id that no
\* call of sendFile draws; the entry under it is added to sendingFiles before
\* sendFile is called.  The onFile subscriber replaces an entry by an event of
\* the same id, so the ids in sendingFiles are the tempIds of the files
\* handed over so far.
tempId(c) == MaxCalls + c
sendingIds == { tempId(c) : c \in { d \in 1..MaxCalls : tx[d].pc # "idle" } }
\* The onFile subscriber: the list whose entry of id file.id the event
\* replaces, or to which it is added.
ListOf(file) ==
    IF file.data.has \/ file.id \notin sendingIds THEN "receivingFiles"
    ELSE "sendingFiles"

\* C39: every event sendFile emits for a file updates the entry that
\* handleFilesSelected added to the sending list for that file, and none
\* goes to the receiving list.
C39_SendEventsUpdateSendingEntry ==
    \A c \in 1..MaxCalls :
       \A i \in 1..Len(fileEvents["tx"][randomUUID(c)]) :
          LET file == fileEvents["tx"][randomUUID(c)][i] IN
          /\ ListOf(file) = "sendingFiles"
          /\ file.id = tempId(c)

====
